---- MODULE Spec2Model ----
(***************************************************************************)
(* A model of the vault-rs client: the Response envelope and its           *)
(* projections, the decoding of reply bodies, the request core of Client,  *)
(* client construction and disposal, and the sys/mounts engine.            *)
(*                                                                         *)
(* Strings are TLA+ strings (Len, SubSeq and \o act on their characters).  *)
(* A JSON value is a record tagged by t: null, bool, num, str, arr, obj;   *)
(* an object is a function from its keys to JSON values.                   *)
(***************************************************************************)
EXTENDS Integers, Sequences, FiniteSets, TLC

VARIABLES
    resp,      \* the Response a projection is applied to
    proj,      \* the last projection applied to resp, and its result
    clients,   \* the Client values of the program, by handle
    last,      \* the last operation performed: its arguments, the requests it
               \* sent, the network's answer and its result
    mounts,    \* what the service holds, and the successful calls by path
    calls      \* the calls in flight on one client at the same time, by slot

vars == <<resp, proj, clients, last, mounts, calls>>

----------------------------------------------------------------------------
(* Option<T> and Result<T, Error> *)

None == [some |-> FALSE]

Some(x) == [some |-> TRUE, val |-> x]

Ok(x) == [ok |-> TRUE, val |-> x]

Err(e) == [ok |-> FALSE, err |-> e]

(* The variants of Error the model reaches *)

ReqwestError == [kind |-> "ReqwestError"]

UrlParseError == [kind |-> "UrlParseError"]

JsonError == [kind |-> "JsonError"]

MissingAddress == [kind |-> "MissingAddress"]

MissingToken == [kind |-> "MissingToken"]

IoError == [kind |-> "IoError"]

VaultError(msg) == [kind |-> "VaultError", msg |-> msg]

MissingData(response) == [kind |-> "MissingData", response |-> response]

UnexpectedResponse(body) == [kind |-> "UnexpectedResponse", body |-> body]

----------------------------------------------------------------------------
(* JSON values (serde_json::Value) *)

JNull == [t |-> "null"]

JBool(b) == [t |-> "bool", b |-> b]

JNum(n) == [t |-> "num", n |-> n]

JStr(s) == [t |-> "str", s |-> s]

JArr(a) == [t |-> "arr", a |-> a]

JObj(o) == [t |-> "obj", o |-> o]

EmptyMap == [k \in {} |-> JNull]

----------------------------------------------------------------------------
(* serde's Deserialize for the types the crate decodes.  Every decoder     *)
(* returns Ok(value) or Err(JsonError).                                    *)

DeString(v) ==
    IF v.t = "str" THEN Ok(v.s) ELSE Err(JsonError)

DeBool(v) ==
    IF v.t = "bool" THEN Ok(v.b) ELSE Err(JsonError)

DeU64(v) ==
    IF v.t = "num" /\ v.n >= 0 THEN Ok(v.n) ELSE Err(JsonError)

DeValue(v) == Ok(v)

DeVecString(v) ==
    IF v.t = "arr" /\ \A i \in 1..Len(v.a) : v.a[i].t = "str"
    THEN Ok([i \in 1..Len(v.a) |-> v.a[i].s])
    ELSE Err(JsonError)

\* HashMap<String, String>
DeMapString(v) ==
    IF v.t = "obj" /\ \A k \in DOMAIN v.o : v.o[k].t = "str"
    THEN Ok([k \in DOMAIN v.o |-> v.o[k].s])
    ELSE Err(JsonError)

\* serde_json::Map<String, Value>
DeMapValue(v) ==
    IF v.t = "obj" THEN Ok(v.o) ELSE Err(JsonError)

\* HashMap<String, Map<String, Value>>
DeMapOfMaps(v) ==
    IF v.t = "obj" /\ \A k \in DOMAIN v.o : v.o[k].t = "obj"
    THEN Ok([k \in DOMAIN v.o |-> v.o[k].o])
    ELSE Err(JsonError)

\* Option<T>: null is None, anything else must decode as T
DeOption(D(_), v) ==
    IF v.t = "null" THEN Ok(None)
    ELSE LET r == D(v) IN IF r.ok THEN Ok(Some(r.val)) ELSE r

\* The fields a derived struct visitor sees: the entries of an object, or the
\* elements of an array taken in declaration order (an array longer than the
\* struct is an error).
StructFields(v, names) ==
    IF v.t = "obj" THEN Ok(v.o)
    ELSE IF v.t = "arr" /\ Len(v.a) <= Len(names)
    THEN Ok([k \in {names[i] : i \in 1..Len(v.a)} |->
                v.a[CHOOSE i \in 1..Len(v.a) : names[i] = k]])
    ELSE Err(JsonError)

\* a required field
Req(o, k, D(_)) ==
    IF k \in DOMAIN o THEN D(o[k]) ELSE Err(JsonError)

\* an Option field: absent or null is None
Opt(o, k, D(_)) ==
    IF k \in DOMAIN o THEN DeOption(D, o[k]) ELSE Ok(None)

DeTokenType(v) ==
    IF v.t = "str" /\ v.s \in {"service", "batch"} THEN Ok(v.s) ELSE Err(JsonError)

AuthenticationFields ==
    <<"client_token", "accessor", "policies", "token_policies", "metadata",
      "lease_duration", "renewable", "entity_id", "token_type">>

DeAuthentication(v) ==
    LET f == StructFields(v, AuthenticationFields)
        o == f.val
    IN  IF /\ f.ok
           /\ Req(o, "client_token", DeString).ok
           /\ Req(o, "accessor", DeString).ok
           /\ Req(o, "policies", DeVecString).ok
           /\ Req(o, "token_policies", DeVecString).ok
           /\ Req(o, "metadata", DeMapString).ok
           /\ Req(o, "lease_duration", DeU64).ok
           /\ Req(o, "renewable", DeBool).ok
           /\ Req(o, "entity_id", DeString).ok
           /\ Req(o, "token_type", DeTokenType).ok
        THEN Ok([client_token |-> Req(o, "client_token", DeString).val,
                 accessor |-> Req(o, "accessor", DeString).val,
                 policies |-> Req(o, "policies", DeVecString).val,
                 token_policies |-> Req(o, "token_policies", DeVecString).val,
                 metadata |-> Req(o, "metadata", DeMapString).val,
                 lease_duration |-> Req(o, "lease_duration", DeU64).val,
                 renewable |-> Req(o, "renewable", DeBool).val,
                 entity_id |-> Req(o, "entity_id", DeString).val,
                 token_type |-> Req(o, "token_type", DeTokenType).val])
        ELSE Err(JsonError)

ResponseDataFields ==
    <<"request_id", "lease_id", "renewable", "lease_duration", "warnings",
      "auth", "data">>

DeResponseData(v) ==
    LET f == StructFields(v, ResponseDataFields)
        o == f.val
    IN  IF /\ f.ok
           /\ Req(o, "request_id", DeString).ok
           /\ Req(o, "lease_id", DeString).ok
           /\ Req(o, "renewable", DeBool).ok
           /\ Req(o, "lease_duration", DeU64).ok
           /\ Opt(o, "warnings", DeVecString).ok
           /\ Opt(o, "auth", DeAuthentication).ok
           /\ Opt(o, "data", DeValue).ok
        THEN Ok([request_id |-> Req(o, "request_id", DeString).val,
                 lease_id |-> Req(o, "lease_id", DeString).val,
                 renewable |-> Req(o, "renewable", DeBool).val,
                 lease_duration |-> Req(o, "lease_duration", DeU64).val,
                 warnings |-> Opt(o, "warnings", DeVecString).val,
                 auth |-> Opt(o, "auth", DeAuthentication).val,
                 data |-> Opt(o, "data", DeValue).val])
        ELSE Err(JsonError)

(* The three variants of Response *)

ResponseError(errors) == [variant |-> "Error", errors |-> errors]

ResponseResponse(data) == [variant |-> "Response", data |-> data]

ResponseEmpty == [variant |-> "Empty"]

\* #[serde(untagged)]: the variants are tried in declaration order.  The struct
\* variant Error takes an object only; the unit variant Empty takes null.
DeResponse(v) ==
    IF v.t = "obj" /\ Req(v.o, "errors", DeVecString).ok
    THEN Ok(ResponseError(Req(v.o, "errors", DeVecString).val))
    ELSE IF DeResponseData(v).ok
    THEN Ok(ResponseResponse(DeResponseData(v).val))
    ELSE IF v.t = "null"
    THEN Ok(ResponseEmpty)
    ELSE Err(JsonError)

----------------------------------------------------------------------------
(* The payload types the engines decode the "data" field into *)

\* HashSet<String>
DeHashSetString(v) ==
    IF DeVecString(v).ok
    THEN Ok({DeVecString(v).val[i] : i \in 1..Len(v.a)})
    ELSE Err(JsonError)

DeListingVisibility(v) ==
    IF v.t = "str" /\ v.s \in {"unauth", "hidden"} THEN Ok(v.s) ELSE Err(JsonError)

SecretsEngineConfigFields ==
    <<"default_lease_ttl", "max_lease_ttl", "force_no_cache",
      "audit_non_hmac_request_keys", "audit_non_hmac_response_keys",
      "listing_visibility", "passthrough_request_headers",
      "allowed_response_headers", "options", "local", "seal_wrap">>

DeSecretsEngineConfig(v) ==
    LET f == StructFields(v, SecretsEngineConfigFields)
        o == f.val
    IN  IF /\ f.ok
           /\ Opt(o, "default_lease_ttl", DeU64).ok
           /\ Opt(o, "max_lease_ttl", DeU64).ok
           /\ Opt(o, "force_no_cache", DeBool).ok
           /\ Opt(o, "audit_non_hmac_request_keys", DeHashSetString).ok
           /\ Opt(o, "audit_non_hmac_response_keys", DeHashSetString).ok
           /\ Opt(o, "listing_visibility", DeListingVisibility).ok
           /\ Opt(o, "passthrough_request_headers", DeHashSetString).ok
           /\ Opt(o, "allowed_response_headers", DeHashSetString).ok
           /\ Opt(o, "options", DeMapString).ok
           /\ Opt(o, "local", DeBool).ok
           /\ Opt(o, "seal_wrap", DeBool).ok
        THEN Ok([default_lease_ttl |-> Opt(o, "default_lease_ttl", DeU64).val,
                 max_lease_ttl |-> Opt(o, "max_lease_ttl", DeU64).val,
                 force_no_cache |-> Opt(o, "force_no_cache", DeBool).val,
                 audit_non_hmac_request_keys |->
                     Opt(o, "audit_non_hmac_request_keys", DeHashSetString).val,
                 audit_non_hmac_response_keys |->
                     Opt(o, "audit_non_hmac_response_keys", DeHashSetString).val,
                 listing_visibility |->
                     Opt(o, "listing_visibility", DeListingVisibility).val,
                 passthrough_request_headers |->
                     Opt(o, "passthrough_request_headers", DeHashSetString).val,
                 allowed_response_headers |->
                     Opt(o, "allowed_response_headers", DeHashSetString).val,
                 options |-> Opt(o, "options", DeMapString).val,
                 local |-> Opt(o, "local", DeBool).val,
                 seal_wrap |-> Opt(o, "seal_wrap", DeBool).val])
        ELSE Err(JsonError)

SecretEngineFields == <<"path", "type", "description", "config">>

DeSecretEngine(v) ==
    LET f == StructFields(v, SecretEngineFields)
        o == f.val
    IN  IF /\ f.ok
           /\ Req(o, "path", DeString).ok
           /\ Req(o, "type", DeString).ok
           /\ Opt(o, "description", DeString).ok
           /\ Opt(o, "config", DeSecretsEngineConfig).ok
        THEN Ok([path |-> Req(o, "path", DeString).val,
                 type |-> Req(o, "type", DeString).val,
                 description |-> Opt(o, "description", DeString).val,
                 config |-> Opt(o, "config", DeSecretsEngineConfig).val])
        ELSE Err(JsonError)

LeaseFields == <<"lease", "lease_max">>

DeLease(v) ==
    LET f == StructFields(v, LeaseFields)
        o == f.val
    IN  IF /\ f.ok
           /\ Req(o, "lease", DeString).ok
           /\ Req(o, "lease_max", DeString).ok
        THEN Ok([lease |-> Req(o, "lease", DeString).val,
                 lease_max |-> Req(o, "lease_max", DeString).val])
        ELSE Err(JsonError)

CredentialsFields == <<"access_key", "secret_key", "security_token">>

DeCredentials(v) ==
    LET f == StructFields(v, CredentialsFields)
        o == f.val
    IN  IF /\ f.ok
           /\ Req(o, "access_key", DeString).ok
           /\ Req(o, "secret_key", DeString).ok
           /\ Opt(o, "security_token", DeString).ok
        THEN Ok([access_key |-> Req(o, "access_key", DeString).val,
                 secret_key |-> Req(o, "secret_key", DeString).val,
                 security_token |-> Opt(o, "security_token", DeString).val])
        ELSE Err(JsonError)

KeyTypes ==
    {"aes256-gcm96", "chacha20-poly1305", "ed25519", "ecdsa-p256", "rsa-2048",
     "rsa-4096"}

DeKeyType(v) ==
    IF v.t = "str" /\ v.s \in KeyTypes THEN Ok(v.s) ELSE Err(JsonError)

KeyBools ==
    {"derived", "exportable", "allow_plaintext_backup", "deletion_allowed",
     "supports_encryption", "supports_decryption", "supports_derivation",
     "supports_signing"}

KeyFields ==
    <<"name", "derived", "exportable", "allow_plaintext_backup", "type",
      "deletion_allowed", "keys", "min_decryption_version",
      "min_encryption_version", "supports_encryption", "supports_decryption",
      "supports_derivation", "supports_signing">>

\* every field of Key is required
DeKey(v) ==
    LET f == StructFields(v, KeyFields)
        o == f.val
    IN  IF /\ f.ok
           /\ Req(o, "name", DeString).ok
           /\ \A k \in KeyBools : Req(o, k, DeBool).ok
           /\ Req(o, "type", DeKeyType).ok
           /\ Req(o, "keys", DeMapValue).ok
           /\ Req(o, "min_decryption_version", DeU64).ok
           /\ Req(o, "min_encryption_version", DeU64).ok
        THEN Ok([k \in KeyBools |-> Req(o, k, DeBool).val]
                @@ [name |-> Req(o, "name", DeString).val,
                    type |-> Req(o, "type", DeKeyType).val,
                    keys |-> Req(o, "keys", DeMapValue).val,
                    min_decryption_version |->
                        Req(o, "min_decryption_version", DeU64).val,
                    min_encryption_version |->
                        Req(o, "min_encryption_version", DeU64).val])
        ELSE Err(JsonError)

\* The types T that the projection steps call data<T>() and leased_data<T>()
\* with
Types == {"Lease", "Credentials", "Map", "MountsMap", "SecretsEngineConfig"}

\* serde_json::from_value::<T>(v), its error converted by From<serde_json::Error>
from_value(T, v) ==
    CASE T = "Lease" -> DeLease(v)
      [] T = "Credentials" -> DeCredentials(v)
      [] T = "Map" -> DeMapValue(v)
      [] T = "MountsMap" -> DeMapOfMaps(v)
      [] T = "SecretsEngineConfig" -> DeSecretsEngineConfig(v)
      [] T = "Key" -> DeKey(v)

----------------------------------------------------------------------------
(* impl Response *)

RECURSIVE join(_, _)
\* [String]::join
join(xs, sep) ==
    IF Len(xs) = 0 THEN ""
    ELSE IF Len(xs) = 1 THEN xs[1]
    ELSE xs[1] \o sep \o join(Tail(xs), sep)

\* ok() reporting only the first error string
Response_ok_first_error(self) ==
    CASE self.variant = "Error" ->
            Err(VaultError(IF Len(self.errors) = 0 THEN "" ELSE self.errors[1]))
      [] self.variant = "Response" -> Ok(Some(self.data))
      [] self.variant = "Empty" -> Ok(None)

Response_ok(self) ==
    CASE self.variant = "Error" -> Err(VaultError(join(self.errors, "; ")))
      [] self.variant = "Response" -> Ok(Some(self.data))
      [] self.variant = "Empty" -> Ok(None)

Response_data_value(self) ==
    CASE self.variant = "Error" -> Err(VaultError(join(self.errors, "; ")))
      [] self.variant = "Empty" -> Err(MissingData(self))
      [] self.variant = "Response" ->
            IF self.data.data.some
            THEN Ok(self.data.data.val)
            ELSE Err(MissingData(self))

\* data() decoding an Empty response as if it carried a null payload
Response_data_empty_as_null(self, T) ==
    CASE self.variant = "Error" -> Err(VaultError(join(self.errors, "; ")))
      [] self.variant = "Empty" -> from_value(T, JNull)
      [] self.variant = "Response" ->
            IF self.data.data.some
            THEN from_value(T, self.data.data.val)
            ELSE Err(MissingData(self))

\* data() reporting a payload it cannot decode as missing
Response_data_mismatch_as_missing(self, T) ==
    CASE self.variant = "Error" -> Err(VaultError(join(self.errors, "; ")))
      [] self.variant = "Empty" -> Err(MissingData(self))
      [] self.variant = "Response" ->
            IF self.data.data.some /\ from_value(T, self.data.data.val).ok
            THEN from_value(T, self.data.data.val)
            ELSE Err(MissingData(self))

Response_data(self, T) ==
    CASE self.variant = "Error" -> Err(VaultError(join(self.errors, "; ")))
      [] self.variant = "Empty" -> Err(MissingData(self))
      [] self.variant = "Response" ->
            IF self.data.data.some
            THEN from_value(T, self.data.data.val)
            ELSE Err(MissingData(self))

\* leased_data() giving the payload without the lease of the response
Response_leased_data_no_lease(self, T) ==
    CASE self.variant = "Error" -> Err(VaultError(join(self.errors, "; ")))
      [] self.variant = "Empty" -> Err(MissingData(self))
      [] self.variant = "Response" ->
            IF self.data.data.some
            THEN LET deserialized == from_value(T, self.data.data.val)
                 IN  IF deserialized.ok
                     THEN Ok([lease_id |-> "", renewable |-> FALSE,
                              lease_duration |-> 0, data |-> deserialized.val])
                     ELSE deserialized
            ELSE Err(MissingData(self))

Response_leased_data(self, T) ==
    CASE self.variant = "Error" -> Err(VaultError(join(self.errors, "; ")))
      [] self.variant = "Empty" -> Err(MissingData(self))
      [] self.variant = "Response" ->
            IF self.data.data.some
            THEN LET deserialized == from_value(T, self.data.data.val)
                 IN  IF deserialized.ok
                     THEN Ok([lease_id |-> self.data.lease_id,
                              renewable |-> self.data.renewable,
                              lease_duration |-> self.data.lease_duration,
                              data |-> deserialized.val])
                     ELSE deserialized
            ELSE Err(MissingData(self))

----------------------------------------------------------------------------
(* Strings *)

\* the first position of sub in s, 0 when s does not hold it
IndexOf(s, sub) ==
    LET hits == {i \in 1..(Len(s) - Len(sub) + 1) :
                    SubSeq(s, i, i + Len(sub) - 1) = sub}
    IN  IF hits = {} THEN 0 ELSE CHOOSE i \in hits : \A j \in hits : i <= j

Letters ==
    {"a", "b", "c", "d", "e", "f", "g", "h", "i", "j", "k", "l", "m", "n", "o",
     "p", "q", "r", "s", "t", "u", "v", "w", "x", "y", "z"}

----------------------------------------------------------------------------
(* url::Url, as far as the client uses it: an address with a scheme, and    *)
(* with "//" an authority and a path; join with a reference that starts    *)
(* with "/" keeps scheme and authority and replaces path and query.        *)

Url_parse(input) ==
    LET colon == IndexOf(input, ":")
        rest == SubSeq(input, colon + 3, Len(input))
        slash == IndexOf(rest, "/")
    IN  IF colon <= 1 \/ SubSeq(input, 1, 1) \notin Letters
        THEN Err(UrlParseError)                  \* no scheme: a relative URL
        ELSE IF SubSeq(input, colon + 1, colon + 2) # "//"
        THEN Ok([scheme |-> SubSeq(input, 1, colon - 1), base |-> FALSE,
                 host |-> "", path |-> SubSeq(input, colon + 1, Len(input)),
                 query |-> None])
        ELSE IF rest = "" \/ slash = 1
        THEN Err(UrlParseError)                  \* empty host
        ELSE Ok([scheme |-> SubSeq(input, 1, colon - 1), base |-> TRUE,
                 host |-> IF slash = 0 THEN rest ELSE SubSeq(rest, 1, slash - 1),
                 path |-> IF slash = 0 THEN "/" ELSE SubSeq(rest, slash, Len(rest)),
                 query |-> None])

\* join with a reference that starts with "/"
Url_join(url, reference) ==
    LET mark == IndexOf(reference, "?")
    IN  IF ~url.base
        THEN Err(UrlParseError)                  \* cannot be a base
        ELSE Ok([url EXCEPT
                 !.path = IF mark = 0 THEN reference
                          ELSE SubSeq(reference, 1, mark - 1),
                 !.query = IF mark = 0 THEN None
                           ELSE Some(SubSeq(reference, mark + 1, Len(reference)))])

Url_as_str(url) ==
    url.scheme \o "://" \o url.host \o url.path
        \o (IF url.query.some THEN "?" \o url.query.val ELSE "")

----------------------------------------------------------------------------
(* reqwest's RequestBuilder: an error met while building is kept and        *)
(* returned by build().                                                     *)

\* http::HeaderValue accepts no control character
HeaderValueOk(value) == IndexOf(value, "\n") = 0

RequestBuilder_new(method, url) ==
    [method |-> method, url |-> url, headers |-> <<>>, body |-> None,
     query |-> None, error |-> FALSE]

RequestBuilder_header(builder, name, value) ==
    IF HeaderValueOk(value)
    THEN [builder EXCEPT !.headers = (name :> value) @@ builder.headers]
    ELSE [builder EXCEPT !.error = TRUE]

\* serde_urlencoded takes a flat set of scalar parameters
RequestBuilder_query(builder, query) ==
    IF query.t = "obj" /\ \A k \in DOMAIN query.o : query.o[k].t \in {"str", "num", "bool"}
    THEN [builder EXCEPT !.query = Some(query.o)]
    ELSE [builder EXCEPT !.error = TRUE]

RequestBuilder_json(builder, payload) ==
    [builder EXCEPT
        !.body = Some(payload),
        !.headers = ("Content-Type" :> "application/json") @@ builder.headers]

RequestBuilder_build(builder) ==
    IF builder.error
    THEN Err(ReqwestError)
    ELSE Ok([method |-> builder.method, url |-> builder.url,
             headers |-> builder.headers, body |-> builder.body,
             query |-> builder.query])

----------------------------------------------------------------------------
(* What the network answers to a request: no connection, a reply whose body *)
(* cannot be read, or a reply with a status and a body.  A body is empty,   *)
(* text that is not JSON, or the text of a JSON value.                      *)

NoNet == [kind |-> "none"]

ConnectError == [kind |-> "connect_error"]

BodyError(status) == [kind |-> "body_error", status |-> status]

Reply(status, body) == [kind |-> "reply", status |-> status, body |-> body]

EmptyBody == [kind |-> "empty"]

TextBody(text) == [kind |-> "text", text |-> text]

JsonBody(j) == [kind |-> "json", j |-> j]

\* String::is_empty
is_empty(body) == body.kind = "empty"

\* serde_json::from_str::<Response>
from_str(body) ==
    IF body.kind = "json" THEN DeResponse(body.j) ELSE Err(JsonError)

----------------------------------------------------------------------------
(* impl Client *)

Client(address, token, revoke_self_on_drop) ==
    [address |-> address, token |-> token,
     revoke_self_on_drop |-> revoke_self_on_drop]

\* sys.tls: whether the default HTTP client can be built
internal_new(vault_address, vault_token, revoke_self_on_drop, client, sys) ==
    IF ~client.some /\ ~sys.tls
    THEN Err(ReqwestError)
    ELSE Ok(Client(vault_address, vault_token, revoke_self_on_drop))

\* environment_variable_or_provided with the environment looked at first
environment_variable_or_provided_env_first(env, alternative) ==
    IF env.some THEN env ELSE alternative

environment_variable_or_provided(env, alternative) ==
    IF alternative.some THEN alternative ELSE env

\* env: the environment variables; sys.cert: what reading and parsing the CA
\* certificate file gives
from_environment(env, address, token, ca_cert, sys) ==
    LET a == environment_variable_or_provided(env.VAULT_ADDR, address)
        t == environment_variable_or_provided(env.VAULT_TOKEN, token)
        root_ca == environment_variable_or_provided(env.VAULT_CACERT, ca_cert)
    IN  IF ~a.some THEN Err(MissingAddress)
        ELSE IF ~t.some THEN Err(MissingToken)
        ELSE IF root_ca.some /\ sys.cert = "unreadable" THEN Err(IoError)
        ELSE IF root_ca.some /\ sys.cert = "bad_pem" THEN Err(ReqwestError)
        ELSE IF root_ca.some /\ ~sys.tls THEN Err(ReqwestError)
        ELSE internal_new(a.val, t.val, FALSE,
                          IF root_ca.some THEN Some("with_root_ca") ELSE None, sys)

\* Client::new returning the client of from_environment as it is
Client_new_flag_unset(env, vault_address, vault_token, root_ca, revoke_self_on_drop, sys) ==
    from_environment(env, vault_address, vault_token, root_ca, sys)

Client_new(env, vault_address, vault_token, root_ca, revoke_self_on_drop, sys) ==
    LET client == from_environment(env, vault_address, vault_token, root_ca, sys)
    IN  IF client.ok
        THEN Ok([client.val EXCEPT !.revoke_self_on_drop = revoke_self_on_drop])
        ELSE client

\* execute_request with error_for_status() on the reply
execute_request_error_for_status(net) ==
    CASE net.kind = "connect_error" -> Err(ReqwestError)
      [] net.kind = "body_error" -> Err(ReqwestError)
      [] net.kind = "reply" ->
            IF net.status >= 400 THEN Err(ReqwestError) ELSE from_str(net.body)

execute_request(net) ==
    CASE net.kind = "connect_error" -> Err(ReqwestError)
      [] net.kind = "body_error" -> Err(ReqwestError)
      [] net.kind = "reply" -> from_str(net.body)

\* execute_request_no_body without the look at the body
execute_request_no_body_any_body(net) ==
    CASE net.kind = "connect_error" -> Err(ReqwestError)
      [] net.kind = "body_error" -> Err(ReqwestError)
      [] net.kind = "reply" -> Ok(None)

\* Ok(()) is Ok(None)
execute_request_no_body(net) ==
    CASE net.kind = "connect_error" -> Err(ReqwestError)
      [] net.kind = "body_error" -> Err(ReqwestError)
      [] net.kind = "reply" ->
            IF ~is_empty(net.body)
            THEN Err(UnexpectedResponse(net.body))
            ELSE Ok(None)

\* build_request without the token header
build_request_no_token(self, path, method) ==
    LET vault_address == Url_parse(self.address)
        joined == Url_join(vault_address.val, "/v1/" \o path)
    IN  IF ~vault_address.ok THEN vault_address
        ELSE IF ~joined.ok THEN joined
        ELSE Ok(RequestBuilder_new(method, joined.val))

\* build_request falling back to a default address when the address of the
\* client does not parse
build_request_default_address(self, path, method) ==
    LET parsed == Url_parse(self.address)
        vault_address == IF parsed.ok THEN parsed
                         ELSE Url_parse("http://127.0.0.1:8200")
        joined == Url_join(vault_address.val, "/v1/" \o path)
    IN  IF ~joined.ok THEN joined
        ELSE Ok(RequestBuilder_header(RequestBuilder_new(method, joined.val),
                                      "X-Vault-Token", self.token))

build_request(self, path, method) ==
    LET vault_address == Url_parse(self.address)
        joined == Url_join(vault_address.val, "/v1/" \o path)
    IN  IF ~vault_address.ok THEN vault_address
        ELSE IF ~joined.ok THEN joined
        ELSE Ok(RequestBuilder_header(RequestBuilder_new(method, joined.val),
                                      "X-Vault-Token", self.token))

build_revoke_self_request(self) ==
    LET vault_address == Url_parse(self.address)
        joined == Url_join(vault_address.val, "/v1/auth/token/revoke-self")
    IN  IF ~vault_address.ok THEN vault_address
        ELSE IF ~joined.ok THEN joined
        ELSE RequestBuilder_build(
                 RequestBuilder_header(RequestBuilder_new("POST", joined.val),
                                       "X-Vault-Token", self.token))

\* A call gives the requests it sent and its result.  net is the network's
\* answer to the request, if one is sent.
\* a call that sends its request once more when the first one failed
Called_resend(request, result) ==
    [sent |-> IF ~request.ok THEN <<>>
              ELSE IF result.ok THEN <<request.val>>
              ELSE <<request.val, request.val>>,
     res |-> IF request.ok THEN result ELSE request]

Called(request, result) ==
    [sent |-> IF request.ok THEN <<request.val>> ELSE <<>>,
     res |-> IF request.ok THEN result ELSE request]

revoke_self(self, net) ==
    Called(build_revoke_self_request(self), execute_request_no_body(net))

----------------------------------------------------------------------------
(* impl Vault for Client, and the provided methods of Vault *)

\* build_request(..)?.build()?, with the builder's steps between
Built(builder, step(_)) ==
    IF builder.ok THEN RequestBuilder_build(step(builder.val)) ELSE builder

Plain(builder) == builder

read(self, path, method, net) ==
    Called(Built(build_request(self, path, method), Plain), execute_request(net))

read_with_query(self, path, method, query, net) ==
    LET with_query(b) == RequestBuilder_query(b, query)
    IN  Called(Built(build_request(self, path, method), with_query),
               execute_request(net))

write(self, path, payload, method, response_expected, net) ==
    LET json(b) == RequestBuilder_json(b, payload)
        request == Built(build_request(self, path, method), json)
        no_body == execute_request_no_body(net)
    IN  IF response_expected
        THEN Called(request, execute_request(net))
        ELSE Called(request, IF no_body.ok THEN Ok(ResponseEmpty) ELSE no_body)

get(self, path, net) == read(self, path, "GET", net)

get_with_query(self, path, query, net) ==
    read_with_query(self, path, "GET", query, net)

list(self, path, net) == read(self, path, "LIST", net)

post(self, path, payload, response_expected, net) ==
    write(self, path, payload, "POST", response_expected, net)

put(self, path, payload, response_expected, net) ==
    write(self, path, payload, "PUT", response_expected, net)

\* the unit struct Empty serializes as null
delete(self, path, response_expected, net) ==
    write(self, path, JNull, "DELETE", response_expected, net)

----------------------------------------------------------------------------
(* impl Drop for Client.  The entry of a client records what its disposal   *)
(* did: the calls of revoke_self it made, how the call ended, whether the   *)
(* failure was logged (warn!) and whether it left drop as a panic.          *)

\* drop waiting in block_on for the request revoke_self has sent
drop_blocked(entry) ==
    [entry EXCEPT !.state = "dropping",
                  !.revoke_calls = entry.revoke_calls + 1,
                  !.revoke = "pending"]

\* drop unwrapping the result of revoke_self instead of matching on it
drop_matched_unwrap(entry, result) ==
    [entry EXCEPT !.state = "dropped",
                  !.revoke = IF result.ok THEN "ok" ELSE "failed",
                  !.warned = FALSE,
                  !.panicked = ~result.ok]

\* drop matching on the result of revoke_self, then returning
drop_matched(entry, result) ==
    [entry EXCEPT !.state = "dropped",
                  !.revoke = IF result.ok THEN "ok" ELSE "failed",
                  !.warned = ~result.ok,
                  !.panicked = FALSE]

\* drop of a client whose flag is unset
drop_plain(entry) == [entry EXCEPT !.state = "dropped"]

----------------------------------------------------------------------------
(* serde's Serialize for the types the sys/mounts engine sends *)

\* a set as a list, in some order
RECURSIVE SetToSeq(_)
SetToSeq(S) ==
    IF S = {} THEN <<>>
    ELSE LET x == CHOOSE y \in S : TRUE IN <<x>> \o SetToSeq(S \ {x})

SerStrings(S) ==
    LET xs == SetToSeq(S) IN JArr([i \in 1..Len(xs) |-> JStr(xs[i])])

SerConfigField(k, x) ==
    CASE k \in {"default_lease_ttl", "max_lease_ttl"} -> JNum(x)
      [] k \in {"force_no_cache", "local", "seal_wrap"} -> JBool(x)
      [] k = "listing_visibility" -> JStr(x)
      [] k = "options" -> JObj([o \in DOMAIN x |-> JStr(x[o])])
      [] k = "description" -> JStr(x)
      [] OTHER -> SerStrings(x)

\* every field has skip_serializing_if = "Option::is_none"
SerSecretsEngineConfig(config) ==
    JObj([k \in {f \in DOMAIN config : config[f].some} |->
             SerConfigField(k, config[k].val)])

SerSecretEngine(engine) ==
    JObj(("path" :> JStr(engine.path)) @@ ("type" :> JStr(engine.type))
         @@ (IF engine.description.some
             THEN ("description" :> JStr(engine.description.val)) ELSE <<>>)
         @@ (IF engine.config.some
             THEN ("config" :> SerSecretsEngineConfig(engine.config.val)) ELSE <<>>))

\* description is serialized also when it is None
SerSecretsEngineTune(config) ==
    JObj(("description" :>
             IF config.description.some THEN JStr(config.description.val) ELSE JNull)
         @@ [k \in {f \in DOMAIN config \ {"description"} : config[f].some} |->
                SerConfigField(k, config[k].val)])

----------------------------------------------------------------------------
(* impl Mounts for T: Vault *)

\* the ? operator: go on with the value of a successful call
Then(call, f(_)) ==
    IF call.res.ok THEN [sent |-> call.sent, res |-> f(call.res.val)] ELSE call

RECURSIVE trim_end_matches(_, _)
\* str::trim_end_matches with a one-character pattern
trim_end_matches(s, c) ==
    IF Len(s) > 0 /\ SubSeq(s, Len(s), Len(s)) = c
    THEN trim_end_matches(SubSeq(s, 1, Len(s) - 1), c)
    ELSE s

\* the closure of list with the record decoded as the reply gave it
list_entry_as_given(path, map) ==
    LET trimmed == trim_end_matches(path, "/")
    IN  [path |-> trimmed,
         engine |-> DeSecretEngine(JObj(map @@ ("path" :> JStr(path))))]

\* the closure of list without the trimming of the key
list_entry_untrimmed(path, map) ==
    [path |-> path, engine |-> DeSecretEngine(JObj(("path" :> JStr(path)) @@ map))]

\* the closure of list: the key trimmed, and the record with the trimmed key
\* inserted as its "path", decoded
list_entry(path, map) ==
    LET trimmed == trim_end_matches(path, "/")
    IN  [path |-> trimmed,
         engine |-> DeSecretEngine(JObj(("path" :> JStr(trimmed)) @@ map))]

\* Every result collect() can give: a HashMap is walked in no fixed order, the
\* first entry that fails to decode ends the walk, and of two entries with the
\* same trimmed key the later one is kept.
list_collect(values) ==
    LET entries == [p \in DOMAIN values |-> list_entry(p, values[p])]
        keys == {entries[p].path : p \in DOMAIN values}
    IN  IF \E p \in DOMAIN values : ~entries[p].engine.ok
        THEN {Err(JsonError)}
        ELSE {Ok(m) : m \in {f \in [keys -> {entries[p].engine.val : p \in DOMAIN values}] :
                                \A k \in keys : \E p \in DOMAIN values :
                                    entries[p].path = k /\ entries[p].engine.val = f[k]}}

Mounts_list(self, net) ==
    LET data(response) == Response_data(response, "MountsMap")
        values == Then(get(self, "sys/mounts", net), data)
    IN  IF values.res.ok
        THEN {[sent |-> values.sent, res |-> r] : r \in list_collect(values.res.val)}
        ELSE {values}

Mounts_enable(self, engine, net) ==
    LET value == SerSecretEngine(engine)
        path == value.o["path"]
        taken == JObj([value.o EXCEPT !["path"] = JNull])
    IN  post(self, "sys/mounts/" \o path.s, taken, FALSE, net)

Mounts_disable(self, path, net) ==
    delete(self, "sys/mounts/" \o path, FALSE, net)

Mounts_get(self, path, net) ==
    LET data(response) == Response_data(response, "SecretsEngineConfig")
    IN  Then(get(self, "sys/mounts/" \o path \o "/tune", net), data)

Mounts_tune(self, path, config, net) ==
    post(self, "sys/mounts/" \o path \o "/tune", SerSecretsEngineTune(config),
         FALSE, net)

----------------------------------------------------------------------------
(* impl Aws for T: Vault, and impl Transit for T: Vault, the calls that write *)

\* the optional fields have skip_serializing_if = "Option::is_none"
SerRootCredentials(config) ==
    JObj(("max_retries" :> JNum(config.max_retries))
         @@ ("access_key" :> JStr(config.access_key))
         @@ ("secret_key" :> JStr(config.secret_key))
         @@ [k \in {f \in {"region", "iam_endpoint", "sts_endpoint"} : config[f].some}
                |-> JStr(config[k].val)])

SerLease(lease) ==
    JObj([lease |-> JStr(lease.lease), lease_max |-> JStr(lease.lease_max)])

SerCreateKey(key) ==
    JObj(("name" :> JStr(key.name)) @@ ("type" :> JStr(key.type))
         @@ [k \in {f \in {"convergent_encryption", "derived", "exportable",
                           "allow_plaintext_backup"} : key[f].some}
                |-> JBool(key[k].val)])

Aws_configure_root(self, path, config, net) ==
    post(self, path \o "/config/root", SerRootCredentials(config), FALSE, net)

\* configure_lease sending the two strings under each other's name
Aws_configure_lease_swapped(self, path, lease, net) ==
    post(self, path \o "/config/lease",
         SerLease([lease |-> lease.lease_max, lease_max |-> lease.lease]),
         FALSE, net)

Aws_configure_lease(self, path, lease, net) ==
    post(self, path \o "/config/lease", SerLease(lease), FALSE, net)

\* read_lease reporting every failure of its get as one error of its own
Aws_read_lease_reclassified(self, path, net) ==
    LET data(response) == Response_data(response, "Lease")
        call == Then(get(self, path \o "/config/lease", net), data)
    IN  IF call.res.ok THEN call
        ELSE [call EXCEPT !.res = Err(VaultError("read_lease failed"))]

Aws_read_lease(self, path, net) ==
    LET data(response) == Response_data(response, "Lease")
    IN  Then(get(self, path \o "/config/lease", net), data)

\* create_key with the name entry removed from the body
Transit_create_key_removed(self, path, key, net) ==
    LET values == SerCreateKey(key)
        name == values.o["name"]
        removed == JObj([k \in DOMAIN values.o \ {"name"} |-> values.o[k]])
    IN  post(self, path \o "/keys/" \o name.s, removed, FALSE, net)

\* take() leaves null where the name was
Transit_create_key(self, path, key, net) ==
    LET values == SerCreateKey(key)
        name == values.o["name"]
        taken == JObj([values.o EXCEPT !["name"] = JNull])
    IN  post(self, path \o "/keys/" \o name.s, taken, FALSE, net)

\* the variant transit.rs names; the Error enum of error.rs has no such variant
MalformedResponse == [kind |-> "MalformedResponse"]

SerCredentialsRequest(request) ==
    JObj([k \in {f \in {"role_arn", "ttl"} : request[f].some} |-> JStr(request[k].val)])

SerConfigureKey(configuration) ==
    JObj([k \in {f \in {"min_decryption_version", "min_encryption_version"} :
                    configuration[f].some} |-> JNum(configuration[k].val)]
         @@ [k \in {f \in {"deletion_allowed", "exportable", "allow_plaintext_backup"} :
                       configuration[f].some} |-> JBool(configuration[k].val)])

Aws_rotate_root(self, path, net) ==
    read(self, path \o "/config/rotate-root", "POST", net)

Aws_generate_credentials(self, path, role, request, net) ==
    LET leased_data(response) == Response_leased_data(response, "Credentials")
    IN  Then(get_with_query(self, path \o "/creds/" \o role,
                            SerCredentialsRequest(request), net),
             leased_data)

Transit_read_key(self, path, key, net) ==
    LET data(response) == Response_data(response, "Key")
    IN  Then(get(self, path \o "/keys/" \o key, net), data)

\* list_keys giving the strings among the elements of "keys"
list_keys_collect_strings_only(data) ==
    IF "keys" \notin DOMAIN data THEN Err(MalformedResponse)
    ELSE IF data["keys"].t # "arr" THEN Err(MalformedResponse)
    ELSE LET strings == SelectSeq(data["keys"].a, LAMBDA v : v.t = "str")
         IN  Ok([i \in 1..Len(strings) |-> strings[i].s])

\* list_keys from the decoded map on: get, as_array, and as_str of every
\* element, collected
list_keys_collect(data) ==
    IF "keys" \notin DOMAIN data THEN Err(MalformedResponse)
    ELSE IF data["keys"].t # "arr" THEN Err(MalformedResponse)
    ELSE IF \E i \in 1..Len(data["keys"].a) : data["keys"].a[i].t # "str"
    THEN Err(MalformedResponse)
    ELSE Ok([i \in 1..Len(data["keys"].a) |-> data["keys"].a[i].s])

Transit_list_keys(self, path, net) ==
    LET data(response) == Response_data(response, "Map")
    IN  Then(Then(list(self, path \o "/keys", net), data), list_keys_collect)

Transit_delete_key(self, path, key, net) ==
    delete(self, path \o "/keys/" \o key, FALSE, net)

Transit_configure_key(self, path, key, configuration, net) ==
    post(self, path \o "/keys/" \o key \o "/config",
         SerConfigureKey(configuration), FALSE, net)

----------------------------------------------------------------------------
(* The role operations of impl Aws for T, and the provided update_role *)

\* unimplemented!(): the call unwinds with a panic when it runs; it gives no
\* Result, neither Ok nor Err
Unimplemented == [panic |-> "not implemented"]

RoleDefault == [struct |-> "Role"]

\* create_role answering with a default value instead of panicking
Aws_create_role_default(self, path, role, net) ==
    [sent |-> <<>>, res |-> Ok(ResponseEmpty)]

Aws_create_role(self, path, role, net) ==
    [sent |-> <<>>, res |-> Unimplemented]

Aws_update_role(self, path, role, net) == Aws_create_role(self, path, role, net)

Aws_read_role(self, path, role, net) ==
    [sent |-> <<>>, res |-> Unimplemented]

Aws_list_roles(self, path, net) ==
    [sent |-> <<>>, res |-> Unimplemented]

Aws_delete_role(self, path, role, net) ==
    [sent |-> <<>>, res |-> Unimplemented]

----------------------------------------------------------------------------
(* The values the checks range over *)

\* the longest list of error strings an Error response carries
MaxErrors == 2

ErrStrings == {"permission denied", "missing client token", ""}

ErrorLists == UNION {[1..n -> ErrStrings] : n \in 0..MaxErrors}

P_lease == JObj([lease |-> JStr("1h0m0s"), lease_max |-> JStr("24h0m0s")])

P_lease_array == JArr(<<JStr("1h"), JStr("24h")>>)

P_lease_wrong == JObj([lease |-> JNum(3600), lease_max |-> JStr("24h")])

P_credentials ==
    JObj([access_key |-> JStr("AKIA"), secret_key |-> JStr("wJal"),
          security_token |-> JNull])

P_config ==
    JObj([default_lease_ttl |-> JNum(0), max_lease_ttl |-> JNum(0),
          force_no_cache |-> JBool(FALSE)])

P_config_wrong == JObj([default_lease_ttl |-> JNum(-1)])

P_keys == JObj([keys |-> JArr(<<JStr("test")>>)])

P_keys_mixed == JObj([keys |-> JArr(<<JStr("test"), JNum(2)>>)])

P_keys_not_array == JObj([keys |-> JStr("test")])

P_keys_two == JObj([keys |-> JArr(<<JStr("test"), JStr("old")>>)])

P_key ==
    JObj([k \in KeyBools |-> JBool(k = "supports_encryption")]
         @@ [name |-> JStr("test"), type |-> JStr("rsa-4096"),
             keys |-> JObj([v1 |-> JNum(1563)]),
             min_decryption_version |-> JNum(1),
             min_encryption_version |-> JNum(0)])

P_mounts ==
    JObj(("kv/" :> JObj([type |-> JStr("kv"), description |-> JStr("")]))
         @@ ("sys/" :> JObj([type |-> JStr("system")])))

\* the opaque payloads ("data") of the sample responses
Payloads ==
    {JNull, JStr("text"), JObj(EmptyMap), P_lease, P_lease_array, P_lease_wrong,
     P_credentials, P_config, P_config_wrong, P_keys, P_mounts}

ResponseDatas ==
    [request_id : {"req-1"},
     lease_id : {"", "aws/creds/deploy/abcd"},
     renewable : BOOLEAN,
     lease_duration : {0, 3600},
     warnings : {None, Some(<<"deprecated">>)},
     auth : {None},
     data : {None} \cup {Some(p) : p \in Payloads}]

Responses ==
    {ResponseError(e) : e \in ErrorLists}
    \cup {ResponseResponse(d) : d \in ResponseDatas}
    \cup {ResponseEmpty}

\* the most Client values the program holds
MaxClients == 1

Handles == 1..MaxClients

NoClient == [state |-> "none"]

NoMounts == <<>>

NoCalls == <<>>

EnvAddress == "http://127.0.0.1:8200"

EnvToken == "s.envtoken"

\* the environment variables of the process
Environments ==
    [VAULT_ADDR : {None, Some(EnvAddress)},
     VAULT_TOKEN : {None, Some(EnvToken)},
     VAULT_CACERT : {None, Some("/etc/vault/ca.pem")}]

\* the addresses a caller passes: one with a path, one whose scheme has no
\* authority, and one that is no URL (the environment's has no path)
Addresses == {"https://vault.example.com/vault", "localhost:8200", "127.0.0.1:8200"}

Tokens == {"12345", "bad\ntoken"}

\* what the system gives a construction: whether the certificate file can be
\* read and parsed, and whether the HTTP client can be built
Systems == [cert : {"ok", "unreadable", "bad_pem"}, tls : {TRUE}]
               \cup [cert : {"ok"}, tls : {FALSE}]

Methods == {"GET", "LIST", "DELETE"}

\* the path of the calls that write
WritePaths == {"secret/data/app"}

Paths == {"secret/data/app", "/auth/token/lookup-self"}

WritePayloads == {JObj([value |-> JStr("s3cr3t")]), JStr("not an object")}

Queries == {JObj([version |-> JNum(2)]), JObj([nested |-> JObj(EmptyMap)])}

\* the fields every Data-shaped body carries
EnvelopeCore ==
    [request_id |-> JStr("req-1"), lease_id |-> JStr(""),
     renewable |-> JBool(FALSE), lease_duration |-> JNum(0)]

Envelope(data) == JObj(("data" :> data) @@ EnvelopeCore)

WithErrors(errors, o) == JObj(("errors" :> errors) @@ o)

M_plain ==
    JObj(("kv/" :> JObj([type |-> JStr("kv"), description |-> JStr("")]))
         @@ ("sys/" :> JObj([type |-> JStr("system"), path |-> JStr("bogus")])))

M_collide ==
    JObj(("kv/" :> JObj([type |-> JStr("kv")]))
         @@ ("kv" :> JObj([type |-> JStr("generic")]))
         @@ ("a//" :> JObj([type |-> JStr("aws")])))

M_wrong == JObj(("kv/" :> JObj([description |-> JStr("no type")])))

\* the JSON values of reply bodies
JsonReplies ==
    {JNull,
     JObj([errors |-> JArr(<<JStr("permission denied")>>)]),
     JObj([errors |-> JArr(<<>>)]),
     WithErrors(JArr(<<JStr("e1"), JStr("e2")>>), EnvelopeCore),
     WithErrors(JArr(<<JNum(1)>>), EnvelopeCore),
     JObj(EnvelopeCore),
     JObj([lease_id |-> JStr(""), renewable |-> JBool(FALSE),
           lease_duration |-> JNum(0)]),
     JArr(<<JStr("req-1"), JStr(""), JBool(TRUE), JNum(60)>>),
     Envelope(JNull),
     Envelope(P_config),
     Envelope(P_lease),
     Envelope(P_credentials),
     Envelope(P_key),
     Envelope(P_keys_two),
     Envelope(P_keys_mixed),
     Envelope(P_keys_not_array),
     Envelope(M_plain),
     Envelope(M_collide),
     Envelope(M_wrong)}

Bodies ==
    {EmptyBody, TextBody("<html>502 Bad Gateway</html>")}
    \cup {JsonBody(j) : j \in JsonReplies}

\* every answer of the network to one request
Outcomes ==
    {ConnectError, BodyError(200), Reply(204, EmptyBody), Reply(500, EmptyBody),
     Reply(403, JsonBody(JObj([errors |-> JArr(<<JStr("permission denied")>>)]))),
     Reply(500, JsonBody(JObj(EnvelopeCore)))}
    \cup {Reply(200, body) : body \in Bodies}

----------------------------------------------------------------------------
(* The projections of a Response, applied to any Response a caller can     *)
(* hold (the enum and its fields are public).                              *)

NoProjection == [op |-> "none"]

NoOp == [op |-> "none", phase |-> "done", sent |-> <<>>, net |-> NoNet]

InitResponse ==
    /\ resp \in Responses
    /\ proj = NoProjection
    /\ clients = [h \in Handles |-> NoClient]
    /\ last = NoOp
    /\ calls = NoCalls
    /\ mounts = NoMounts

ok_step ==
    /\ proj' = [op |-> "ok", res |-> Response_ok(resp)]
    /\ UNCHANGED <<resp, clients, last, mounts, calls>>

data_value_step ==
    /\ proj' = [op |-> "data_value", res |-> Response_data_value(resp)]
    /\ UNCHANGED <<resp, clients, last, mounts, calls>>

data_step ==
    \E T \in Types :
        /\ proj' = [op |-> "data", T |-> T, res |-> Response_data(resp, T)]
        /\ UNCHANGED <<resp, clients, last, mounts, calls>>

leased_data_step ==
    \E T \in Types :
        /\ proj' = [op |-> "leased_data", T |-> T,
                    res |-> Response_leased_data(resp, T)]
        /\ UNCHANGED <<resp, clients, last, mounts, calls>>

NextResponse == ok_step \/ data_value_step \/ data_step \/ leased_data_step

SpecResponse == InitResponse /\ [][NextResponse]_vars

----------------------------------------------------------------------------
(* Claims about the projections, checked under SpecResponse *)

RECURSIVE SumLen(_, _)
\* the total length of the first n strings of xs
SumLen(xs, n) == IF n = 0 THEN 0 ELSE Len(xs[n]) + SumLen(xs, n - 1)

\* where xs[i] starts in the strings of xs laid out with a two-character
\* separator between neighbours
StartOf(xs, i) == 1 + SumLen(xs, i - 1) + 2 * (i - 1)

\* msg is the strings of xs in order, "; " between neighbours and nothing else
IsJoined(msg, xs) ==
    /\ Len(xs) = 0 => msg = ""
    /\ Len(xs) = 1 => msg = xs[1]
    /\ Len(xs) > 0 => Len(msg) = SumLen(xs, Len(xs)) + 2 * (Len(xs) - 1)
    /\ \A i \in 1..Len(xs) :
          SubSeq(msg, StartOf(xs, i), StartOf(xs, i) + Len(xs[i]) - 1) = xs[i]
    /\ \A i \in 1..(Len(xs) - 1) :
          SubSeq(msg, StartOf(xs, i) + Len(xs[i]), StartOf(xs, i) + Len(xs[i]) + 1)
              = "; "

\* C1: ok() of an Error response never succeeds: it fails with VaultError whose
\* message is the error strings in their order with "; " between them (one
\* string alone unchanged, no string the empty message).
C1_OkOfErrorIsJoinedVaultError ==
    (proj.op = "ok" /\ resp.variant = "Error") =>
        /\ ~proj.res.ok
        /\ proj.res.err.kind = "VaultError"
        /\ IsJoined(proj.res.err.msg, resp.errors)

C1_Witness ==
    /\ proj.op = "ok"
    /\ resp.variant = "Error"
    /\ Len(resp.errors) = 2
    /\ resp.errors[1] # resp.errors[2]
    /\ ~proj.res.ok

\* C2: on an Empty response ok() succeeds with the no-data result Ok(None), and
\* data_value(), data<T>() and leased_data<T>() fail with MissingData carrying
\* a response equal to the one they were called on.
C2_EmptyIsNoDataAndMissingData ==
    resp.variant = "Empty" =>
        /\ proj.op = "ok" =>
              /\ proj.res.ok
              /\ ~proj.res.val.some
        /\ proj.op \in {"data_value", "data", "leased_data"} =>
              /\ ~proj.res.ok
              /\ proj.res.err.kind = "MissingData"
              /\ proj.res.err.response = resp

C2_Witness ==
    /\ resp.variant = "Empty"
    /\ proj.op = "data"
    /\ ~proj.res.ok
    /\ proj.res.err.kind = "MissingData"

\* the payload structurally matches T: T's decoder accepts it
Matches(T, v) == from_value(T, v).ok

\* C3: on a Data response whose data is present, data<T>() succeeds exactly
\* when the payload matches T and fails with JsonError otherwise; it fails with
\* MissingData only on an Empty response or a Data response without data.
C3_DataDecodesOrJsonError ==
    proj.op = "data" =>
        /\ (resp.variant = "Response" /\ resp.data.data.some) =>
              /\ proj.res.ok <=> Matches(proj.T, resp.data.data.val)
              /\ ~proj.res.ok => proj.res.err.kind = "JsonError"
        /\ (~proj.res.ok /\ proj.res.err.kind = "MissingData") =>
              \/ resp.variant = "Empty"
              \/ resp.variant = "Response" /\ ~resp.data.data.some

C3_Witness ==
    /\ proj.op = "data"
    /\ proj.T = "Lease"
    /\ resp.variant = "Response"
    /\ resp.data.data = Some(P_lease_wrong)
    /\ ~proj.res.ok
    /\ proj.res.err.kind = "JsonError"

----------------------------------------------------------------------------
(* The program: one client is built, used by one caller that awaits every   *)
(* call, and disposed of.  A call that sends a request is a step up to the  *)
(* request and a step from the network's answer to the result.             *)

Live(self) ==
    [state |-> "live", self |-> self, revoke_calls |-> 0, revoke |-> "none",
     warned |-> FALSE, panicked |-> FALSE]

IsLive(h) == clients[h].state = "live"

Pending == [pending |-> TRUE]

MountPaths == {"kv", "kv/", "team/db"}

NoConfig ==
    [k \in {SecretsEngineConfigFields[i] : i \in 1..Len(SecretsEngineConfigFields)}
        |-> None]

SecretEngines ==
    [path : MountPaths, type : {"kv"}, description : {None}, config : {None}]
    \cup [path : {"kv"}, type : {"kv"}, description : {Some("hello world")},
          config : {Some([NoConfig EXCEPT !.default_lease_ttl = Some(3600)])}]

SecretsEngineTunes ==
    {[description |-> Some("hello world"), default_lease_ttl |-> None,
      max_lease_ttl |-> None, audit_non_hmac_request_keys |-> None,
      audit_non_hmac_response_keys |-> None, listing_visibility |-> None,
      passthrough_request_headers |-> None, allowed_response_headers |-> None]}

RootCredentialsSamples ==
    {[max_retries |-> -1, access_key |-> "AKIA", secret_key |-> "wJal",
      region |-> Some("us-east-1"), iam_endpoint |-> None, sts_endpoint |-> None]}

Leases == {[lease |-> "1h", lease_max |-> "24h"]}

CreateKeys ==
    {[name |-> "test", convergent_encryption |-> None, derived |-> None,
      exportable |-> None, allow_plaintext_backup |-> None, type |-> "rsa-4096"]}

CredentialsRequests == {[role_arn |-> None, ttl |-> Some("15m")]}

ConfigureKeys ==
    {[min_decryption_version |-> Some(1), min_encryption_version |-> None,
      deletion_allowed |-> Some(TRUE), exportable |-> None,
      allow_plaintext_backup |-> None]}

\* every way the call op(args) on self can go when the network answers net
Run(op, self, args, net) ==
    CASE op = "read" -> {read(self, args.path, args.method, net)}
      [] op = "read_with_query" ->
            {read_with_query(self, args.path, args.method, args.query, net)}
      [] op = "write" ->
            {write(self, args.path, args.payload, args.method,
                   args.response_expected, net)}
      [] op = "get" -> {get(self, args.path, net)}
      [] op = "get_with_query" -> {get_with_query(self, args.path, args.query, net)}
      [] op = "list" -> {list(self, args.path, net)}
      [] op = "post" ->
            {post(self, args.path, args.payload, args.response_expected, net)}
      [] op = "put" ->
            {put(self, args.path, args.payload, args.response_expected, net)}
      [] op = "delete" -> {delete(self, args.path, args.response_expected, net)}
      [] op = "revoke_self" -> {revoke_self(self, net)}
      [] op = "Mounts::list" -> Mounts_list(self, net)
      [] op = "Mounts::enable" -> {Mounts_enable(self, args.engine, net)}
      [] op = "Mounts::disable" -> {Mounts_disable(self, args.path, net)}
      [] op = "Mounts::get" -> {Mounts_get(self, args.path, net)}
      [] op = "Mounts::tune" -> {Mounts_tune(self, args.path, args.config, net)}
      [] op = "Aws::configure_root" ->
            {Aws_configure_root(self, args.path, args.config, net)}
      [] op = "Aws::configure_lease" ->
            {Aws_configure_lease(self, args.path, args.lease, net)}
      [] op = "Transit::create_key" ->
            {Transit_create_key(self, args.path, args.key, net)}
      [] op = "Aws::rotate_root" -> {Aws_rotate_root(self, args.path, net)}
      [] op = "Aws::read_lease" -> {Aws_read_lease(self, args.path, net)}
      [] op = "Aws::generate_credentials" ->
            {Aws_generate_credentials(self, args.path, args.role, args.request, net)}
      [] op = "Transit::read_key" -> {Transit_read_key(self, args.path, args.key, net)}
      [] op = "Transit::list_keys" -> {Transit_list_keys(self, args.path, net)}
      [] op = "Transit::delete_key" ->
            {Transit_delete_key(self, args.path, args.key, net)}
      [] op = "Transit::configure_key" ->
            {Transit_configure_key(self, args.path, args.key, args.configuration, net)}

\* no call is awaiting its answer
Idle == last.phase # "sent"

\* the caller starts op(args) on client h, where the call runs as dry up to the
\* answer of the network: the call ends at once when it sends no request, and
\* awaits the answer otherwise
Issue(op, h, args, dry) ==
    /\ Idle
    /\ IsLive(h)
    /\ last' = [op |-> op, h |-> h, self |-> clients[h].self, args |-> args,
                phase |-> IF dry.sent = <<>> THEN "done" ELSE "sent",
                sent |-> dry.sent, net |-> NoNet,
                res |-> IF dry.sent = <<>> THEN dry.res ELSE Pending]
    /\ UNCHANGED <<resp, proj, clients, mounts, calls>>

Init ==
    /\ resp = ResponseEmpty
    /\ proj = NoProjection
    /\ clients = [h \in Handles |-> NoClient]
    /\ last = NoOp
    /\ calls = NoCalls
    /\ mounts = NoMounts

Options(S) == {None} \cup {Some(x) : x \in S}

new_step ==
    \E env \in Environments, address \in Options(Addresses),
       token \in Options(Tokens), root_ca \in Options({"/tmp/ca.pem"}),
       revoke_self_on_drop \in BOOLEAN, sys \in Systems :
        LET r == Client_new(env, address, token, root_ca, revoke_self_on_drop, sys)
        IN  /\ last = NoOp
            /\ clients' = IF r.ok THEN [clients EXCEPT ![1] = Live(r.val)]
                          ELSE clients
            /\ last' = [op |-> "new", phase |-> "done", env |-> env,
                        args |-> [address |-> address, token |-> token,
                                  root_ca |-> root_ca,
                                  revoke_self_on_drop |-> revoke_self_on_drop],
                        sys |-> sys, sent |-> <<>>, net |-> NoNet, res |-> r]
            /\ UNCHANGED <<resp, proj, mounts, calls>>

from_environment_step ==
    \E env \in Environments, address \in Options(Addresses),
       token \in Options(Tokens), ca_cert \in Options({"/tmp/ca.pem"}),
       sys \in Systems :
        LET r == from_environment(env, address, token, ca_cert, sys)
        IN  /\ last = NoOp
            /\ clients' = IF r.ok THEN [clients EXCEPT ![1] = Live(r.val)]
                          ELSE clients
            /\ last' = [op |-> "from_environment", phase |-> "done", env |-> env,
                        args |-> [address |-> address, token |-> token,
                                  root_ca |-> ca_cert],
                        sys |-> sys, sent |-> <<>>, net |-> NoNet, res |-> r]
            /\ UNCHANGED <<resp, proj, mounts, calls>>

read_step ==
    \E h \in Handles, path \in WritePaths, method \in Methods :
        Issue("read", h, [path |-> path, method |-> method],
              read(clients[h].self, path, method, ConnectError))

read_with_query_step ==
    \E h \in Handles, path \in WritePaths, query \in Queries :
        Issue("read_with_query", h, [path |-> path, method |-> "GET", query |-> query],
              read_with_query(clients[h].self, path, "GET", query, ConnectError))

write_step ==
    \E h \in Handles, path \in WritePaths, payload \in WritePayloads,
       method \in {"POST"}, response_expected \in BOOLEAN :
        Issue("write", h, [path |-> path, payload |-> payload, method |-> method,
                           response_expected |-> response_expected],
              write(clients[h].self, path, payload, method, response_expected, ConnectError))

get_step ==
    \E h \in Handles, path \in Paths : Issue("get", h, [path |-> path],
       get(clients[h].self, path, ConnectError))

get_with_query_step ==
    \E h \in Handles, path \in WritePaths, query \in Queries :
        Issue("get_with_query", h, [path |-> path, query |-> query],
              get_with_query(clients[h].self, path, query, ConnectError))

list_step ==
    \E h \in Handles, path \in WritePaths : Issue("list", h, [path |-> path],
       list(clients[h].self, path, ConnectError))

post_step ==
    \E h \in Handles, path \in WritePaths, payload \in WritePayloads,
       response_expected \in BOOLEAN :
        Issue("post", h, [path |-> path, payload |-> payload,
                          response_expected |-> response_expected],
              post(clients[h].self, path, payload, response_expected, ConnectError))

put_step ==
    \E h \in Handles, path \in WritePaths, payload \in {JObj(EmptyMap)},
       response_expected \in BOOLEAN :
        Issue("put", h, [path |-> path, payload |-> payload,
                         response_expected |-> response_expected],
              put(clients[h].self, path, payload, response_expected, ConnectError))

delete_step ==
    \E h \in Handles, path \in WritePaths, response_expected \in BOOLEAN :
        Issue("delete", h, [path |-> path, response_expected |-> response_expected],
              delete(clients[h].self, path, response_expected, ConnectError))

revoke_self_step ==
    \E h \in Handles : Issue("revoke_self", h, <<>>,
       revoke_self(clients[h].self, ConnectError))

Mounts_list_step ==
    \E h \in Handles : Issue("Mounts::list", h, <<>>,
       CHOOSE call \in Mounts_list(clients[h].self, ConnectError) : TRUE)

Mounts_enable_step ==
    \E h \in Handles, engine \in SecretEngines :
        Issue("Mounts::enable", h, [engine |-> engine],
              Mounts_enable(clients[h].self, engine, ConnectError))

Mounts_disable_step ==
    \E h \in Handles, path \in MountPaths :
        Issue("Mounts::disable", h, [path |-> path],
              Mounts_disable(clients[h].self, path, ConnectError))

Mounts_get_step ==
    \E h \in Handles, path \in {"kv", "kv/"} :
        Issue("Mounts::get", h, [path |-> path],
              Mounts_get(clients[h].self, path, ConnectError))

Mounts_tune_step ==
    \E h \in Handles, path \in {"kv", "kv/"}, config \in SecretsEngineTunes :
        Issue("Mounts::tune", h, [path |-> path, config |-> config],
              Mounts_tune(clients[h].self, path, config, ConnectError))

Aws_configure_root_step ==
    \E h \in Handles, config \in RootCredentialsSamples :
        Issue("Aws::configure_root", h, [path |-> "aws", config |-> config],
              Aws_configure_root(clients[h].self, "aws", config, ConnectError))

Aws_configure_lease_step ==
    \E h \in Handles, lease \in Leases :
        Issue("Aws::configure_lease", h, [path |-> "aws", lease |-> lease],
              Aws_configure_lease(clients[h].self, "aws", lease, ConnectError))

Transit_create_key_step ==
    \E h \in Handles, key \in CreateKeys :
        Issue("Transit::create_key", h, [path |-> "transit", key |-> key],
              Transit_create_key(clients[h].self, "transit", key, ConnectError))

Aws_rotate_root_step ==
    \E h \in Handles :
        Issue("Aws::rotate_root", h, [path |-> "aws"],
              Aws_rotate_root(clients[h].self, "aws", ConnectError))

Aws_read_lease_step ==
    \E h \in Handles :
        Issue("Aws::read_lease", h, [path |-> "aws"],
              Aws_read_lease(clients[h].self, "aws", ConnectError))

Aws_generate_credentials_step ==
    \E h \in Handles, request \in CredentialsRequests :
        Issue("Aws::generate_credentials", h,
              [path |-> "aws", role |-> "deploy", request |-> request],
              Aws_generate_credentials(clients[h].self, "aws", "deploy", request,
                                       ConnectError))

Transit_read_key_step ==
    \E h \in Handles :
        Issue("Transit::read_key", h, [path |-> "transit", key |-> "test"],
              Transit_read_key(clients[h].self, "transit", "test", ConnectError))

Transit_list_keys_step ==
    \E h \in Handles :
        Issue("Transit::list_keys", h, [path |-> "transit"],
              Transit_list_keys(clients[h].self, "transit", ConnectError))

Transit_delete_key_step ==
    \E h \in Handles :
        Issue("Transit::delete_key", h, [path |-> "transit", key |-> "test"],
              Transit_delete_key(clients[h].self, "transit", "test", ConnectError))

Transit_configure_key_step ==
    \E h \in Handles, configuration \in ConfigureKeys :
        Issue("Transit::configure_key", h,
              [path |-> "transit", key |-> "test", configuration |-> configuration],
              Transit_configure_key(clients[h].self, "transit", "test",
                                    configuration, ConnectError))

Aws_create_role_step ==
    \E h \in Handles :
        Issue("Aws::create_role", h, [path |-> "aws", role |-> RoleDefault],
              Aws_create_role(clients[h].self, "aws", RoleDefault, ConnectError))

Aws_update_role_step ==
    \E h \in Handles :
        Issue("Aws::update_role", h, [path |-> "aws", role |-> RoleDefault],
              Aws_update_role(clients[h].self, "aws", RoleDefault, ConnectError))

Aws_read_role_step ==
    \E h \in Handles :
        Issue("Aws::read_role", h, [path |-> "aws", role |-> "deploy"],
              Aws_read_role(clients[h].self, "aws", "deploy", ConnectError))

Aws_list_roles_step ==
    \E h \in Handles :
        Issue("Aws::list_roles", h, [path |-> "aws"],
              Aws_list_roles(clients[h].self, "aws", ConnectError))

Aws_delete_role_step ==
    \E h \in Handles :
        Issue("Aws::delete_role", h, [path |-> "aws", role |-> "deploy"],
              Aws_delete_role(clients[h].self, "aws", "deploy", ConnectError))

\* the network answers the request of the awaiting call, which then ends
reply_step ==
    \E net \in Outcomes :
        /\ last.phase = "sent"
        /\ last.op # "drop"
        /\ \E call \in Run(last.op, last.self, last.args, net) :
              last' = [last EXCEPT !.phase = "done", !.sent = call.sent,
                                   !.net = net, !.res = call.res]
        /\ UNCHANGED <<resp, proj, clients, mounts, calls>>

\* drop of client h up to the point where it returns or blocks on the request
\* it has sent
Client_drop(h) ==
    LET entry == clients[h]
        revoke == entry.self.revoke_self_on_drop
        call == revoke_self(entry.self, ConnectError)
    IN  /\ Idle
        /\ IsLive(h)
        /\ clients' =
              [clients EXCEPT ![h] =
                  IF ~revoke THEN drop_plain(entry)
                  ELSE IF call.sent = <<>>
                  THEN drop_matched(drop_blocked(entry), call.res)
                  ELSE drop_blocked(entry)]
        /\ last' = [op |-> "drop", h |-> h, self |-> entry.self, args |-> <<>>,
                    phase |-> IF revoke /\ call.sent # <<>> THEN "sent" ELSE "done",
                    sent |-> IF revoke THEN call.sent ELSE <<>>,
                    net |-> NoNet,
                    res |-> IF ~revoke THEN Ok(None)
                            ELSE IF call.sent = <<>> THEN call.res ELSE Pending]
        /\ UNCHANGED <<resp, proj, mounts, calls>>

drop_step == \E h \in Handles : Client_drop(h)

\* the answer to the request of the blocked drop of client h arrives
Client_drop_returns(h, net) ==
    LET entry == clients[h]
        call == revoke_self(entry.self, net)
    IN  /\ entry.state = "dropping"
        /\ last.op = "drop" /\ last.h = h /\ last.phase = "sent"
        /\ clients' = [clients EXCEPT ![h] = drop_matched(entry, call.res)]
        /\ last' = [last EXCEPT !.phase = "done", !.sent = call.sent,
                                !.net = net, !.res = call.res]
        /\ UNCHANGED <<resp, proj, mounts, calls>>

drop_returns_step ==
    \E h \in Handles, net \in Outcomes : Client_drop_returns(h, net)

Next ==
    \/ new_step
    \/ from_environment_step
    \/ read_step
    \/ read_with_query_step
    \/ write_step
    \/ get_step
    \/ get_with_query_step
    \/ list_step
    \/ post_step
    \/ put_step
    \/ delete_step
    \/ revoke_self_step
    \/ Mounts_list_step
    \/ Mounts_enable_step
    \/ Mounts_disable_step
    \/ Mounts_get_step
    \/ Mounts_tune_step
    \/ Aws_configure_root_step
    \/ Aws_configure_lease_step
    \/ Transit_create_key_step
    \/ Aws_rotate_root_step
    \/ Aws_read_lease_step
    \/ Aws_generate_credentials_step
    \/ Transit_read_key_step
    \/ Transit_list_keys_step
    \/ Transit_delete_key_step
    \/ Transit_configure_key_step
    \/ Aws_create_role_step
    \/ Aws_update_role_step
    \/ Aws_read_role_step
    \/ Aws_list_roles_step
    \/ Aws_delete_role_step
    \/ reply_step
    \/ drop_step
    \/ drop_returns_step

Spec == Init /\ [][Next]_vars

----------------------------------------------------------------------------
(* Properties of the client, its requests and the engines                   *)

\* the calls that write and take response_expected
WriteOps == {"write", "post", "put", "delete"}

\* the engine calls that write with response_expected = false
NoResponseEngineOps ==
    {"Mounts::enable", "Mounts::disable", "Mounts::tune", "Aws::configure_root",
     "Aws::configure_lease", "Transit::create_key"}

\* a call that has ended after the network replied with a body
Answered == last.phase = "done" /\ last.net.kind = "reply"

\* C4: a write with response_expected = false returns Response::Empty exactly
\* when the reply body is empty, and fails with UnexpectedResponse carrying the
\* body when the body is not empty, whatever the payload sent; a successful
\* engine call made with response_expected = false gives a response whose ok()
\* is the no-data result.
C4_WriteWithoutResponse ==
    /\ (Answered /\ last.op \in WriteOps /\ ~last.args.response_expected) =>
          /\ (last.res = Ok(ResponseEmpty)) <=> (last.net.body = EmptyBody)
          /\ last.net.body # EmptyBody =>
                last.res = Err(UnexpectedResponse(last.net.body))
    /\ (Answered /\ last.op \in NoResponseEngineOps) =>
          /\ last.res.ok <=> (last.net.body = EmptyBody)
          /\ last.res.ok => Response_ok(last.res.val) = Ok(None)
          /\ ~last.res.ok => last.res = Err(UnexpectedResponse(last.net.body))

C4_Witness ==
    /\ Answered
    /\ last.op = "write"
    /\ ~last.args.response_expected
    /\ last.net.body = JsonBody(JObj(EnvelopeCore))
    /\ last.res = Err(UnexpectedResponse(JsonBody(JObj(EnvelopeCore))))

\* the calls whose result is the decoded reply body
DecodingOps == {"read", "read_with_query", "get", "get_with_query", "list"}

Decoded ==
    /\ Answered
    /\ \/ last.op \in DecodingOps
       \/ last.op \in WriteOps /\ last.args.response_expected

\* the body is JSON with a list of strings under "errors"
ErrorShape(body) ==
    /\ body.kind = "json"
    /\ body.j.t = "obj"
    /\ "errors" \in DOMAIN body.j.o
    /\ DeVecString(body.j.o["errors"]).ok

\* the body is JSON that parses as the Data shape
DataShape(body) == body.kind = "json" /\ DeResponseData(body.j).ok

\* C5: decoding a reply body tries the Error shape first, so a body with a list
\* of strings under "errors" gives the Error variant even with every Data
\* field; a body that is not of the Error shape and does not parse as the Data
\* shape makes the call fail with JsonError and gives no Response at all.
C5_ErrorFirstElseDataOrJsonError ==
    Decoded =>
        /\ ErrorShape(last.net.body) =>
              last.res = Ok(ResponseError(DeVecString(last.net.body.j.o["errors"]).val))
        /\ (~ErrorShape(last.net.body) /\ ~DataShape(last.net.body)) =>
              last.res = Err(JsonError)

\* the reply body null is returned as Response::Empty
C5_Witness ==
    /\ Decoded
    /\ last.op = "get"
    /\ last.net.body = JsonBody(JNull)
    /\ last.res = Ok(ResponseEmpty)

Constructed == last.op \in {"new", "from_environment"}

\* the value given explicitly, else the one of the environment
Given(explicit, variable) == IF explicit.some THEN explicit ELSE variable

NoAddress == ~Given(last.args.address, last.env.VAULT_ADDR).some

NoToken == ~Given(last.args.token, last.env.VAULT_TOKEN).some

\* an explicit argument is used and the environment variable ignored, and no
\* client exists after a failed construction
C6_ExplicitFirstAndNoClient ==
    /\ last.res.ok =>
          /\ last.args.address.some => last.res.val.address = last.args.address.val
          /\ last.args.token.some => last.res.val.token = last.args.token.val
          /\ ~last.args.address.some => last.res.val.address = last.env.VAULT_ADDR.val
          /\ ~last.args.token.some => last.res.val.token = last.env.VAULT_TOKEN.val
          /\ clients[1] = Live(last.res.val)
    /\ ~last.res.ok => \A h \in Handles : clients[h] = NoClient

\* C6: construction fails with MissingAddress when the address is given neither
\* explicitly nor by VAULT_ADDR, and with MissingToken when the address is
\* given and the token is given neither explicitly nor by VAULT_TOKEN (the
\* address is looked at first); an explicit argument is used and the
\* environment variable ignored; no client exists after a failed construction.
C6_MissingAddressThenMissingToken ==
    Constructed =>
        /\ NoAddress => last.res = Err(MissingAddress)
        /\ (NoToken /\ ~NoAddress) => last.res = Err(MissingToken)
        /\ C6_ExplicitFirstAndNoClient

\* C6 as stated: MissingToken whenever the token is given by neither
C6_AsStated ==
    Constructed =>
        /\ NoAddress => last.res = Err(MissingAddress)
        /\ NoToken => last.res = Err(MissingToken)
        /\ C6_ExplicitFirstAndNoClient

C6_Witness ==
    /\ last.op = "new"
    /\ NoToken
    /\ last.args.address.some
    /\ last.env.VAULT_ADDR.some
    /\ last.res = Err(MissingToken)

\* C7: the disposal of a client whose revoke_self_on_drop is set makes exactly
\* one call of revoke_self and ends only when that call has succeeded or
\* failed; a failure is logged and does not leave drop.  The disposal of a
\* client whose flag is not set sends no request.
C7_DropRevokesOnceAndSwallows ==
    \A h \in Handles :
        LET entry == clients[h]
        IN  /\ (entry.state = "live") => entry.revoke_calls = 0
            /\ (entry.state \in {"dropping", "dropped"}
                    /\ entry.self.revoke_self_on_drop) =>
                  /\ entry.revoke_calls = 1
                  /\ last.op = "drop" /\ Len(last.sent) <= 1
                  /\ entry.state = "dropping" =>
                        entry.revoke = "pending" /\ last.phase = "sent"
                  /\ entry.state = "dropped" =>
                        /\ entry.revoke \in {"ok", "failed"}
                        /\ (entry.revoke = "ok") <=> (last.res = Ok(None))
                        /\ entry.warned <=> (entry.revoke = "failed")
                        /\ ~entry.panicked
            /\ (entry.state \in {"dropping", "dropped"}
                    /\ ~entry.self.revoke_self_on_drop) =>
                  /\ entry.state = "dropped"
                  /\ entry.revoke_calls = 0
                  /\ ~entry.warned /\ ~entry.panicked
                  /\ last.op = "drop" /\ last.sent = <<>>

C7_Witness ==
    \E h \in Handles :
        /\ clients[h].state = "dropped"
        /\ clients[h].self.revoke_self_on_drop
        /\ clients[h].revoke = "failed"
        /\ clients[h].warned
        /\ last.net.kind = "reply"
        /\ last.res.err.kind = "UnexpectedResponse"

TokenHeader == "X-Vault-Token"

\* C8: every request sent by read, read_with_query, write, a convenience verb,
\* an engine call, revoke_self or drop carries the header X-Vault-Token with
\* the token the client was built with.
C8_EveryRequestCarriesToken ==
    /\ Constructed /\ last.res.ok =>
          last.res.val.token = Given(last.args.token, last.env.VAULT_TOKEN).val
    /\ ~Constructed /\ last.op # "none" =>
          /\ \A h \in Handles : clients[h].state # "none" =>
                clients[h].self.token = clients[1].self.token
          /\ last.self = clients[last.h].self
          /\ \A i \in 1..Len(last.sent) :
                /\ TokenHeader \in DOMAIN last.sent[i].headers
                /\ last.sent[i].headers[TokenHeader] = last.self.token

C8_Witness ==
    /\ last.op = "Mounts::enable"
    /\ last.phase = "sent"
    /\ Len(last.sent) = 1
    /\ last.self.token = EnvToken
    /\ last.sent[1].headers[TokenHeader] = EnvToken

\* t is k without its trailing path separators
IsTrimmed(t, k) ==
    /\ Len(t) <= Len(k)
    /\ SubSeq(k, 1, Len(t)) = t
    /\ \A i \in (Len(t) + 1)..Len(k) : SubSeq(k, i, i) = "/"
    /\ Len(t) > 0 => SubSeq(t, Len(t), Len(t)) # "/"

\* C9: a successful Mounts::list maps every entry of the reply to an entry
\* whose key is the reply's key with the trailing separator trimmed and whose
\* path is that trimmed key, whatever the reply's record says of a path; every
\* entry of the result has its key as path and comes from an entry of the reply.
C9_ListTrimsKeysAndSetsPath ==
    (Answered /\ last.op = "Mounts::list" /\ last.res.ok) =>
        LET reply == last.net.body.j.o["data"].o
            result == last.res.val
        IN  /\ \A k \in DOMAIN reply :
                  \E key \in DOMAIN result :
                      IsTrimmed(key, k) /\ result[key].path = key
            /\ \A key \in DOMAIN result :
                  /\ result[key].path = key
                  /\ \E k \in DOMAIN reply :
                        /\ IsTrimmed(key, k)
                        /\ result[key].type = reply[k].o["type"].s

C9_Witness ==
    /\ Answered
    /\ last.op = "Mounts::list"
    /\ last.net.body = JsonBody(Envelope(M_plain))
    /\ last.res.ok
    /\ DOMAIN last.res.val = {"kv", "sys"}
    /\ last.res.val["sys"].path = "sys"

----------------------------------------------------------------------------
(* The sys/mounts engine against a service that stores mounts.  The service *)
(* keeps every mount under its path with one trailing separator, answers a  *)
(* request without the root token with an error, and lists its mounts under *)
(* those paths.  The client is the one of the tests (tests::vault_client).  *)

ServiceToken == "12345"

ServiceAddress == "http://127.0.0.1:8200"

MountsRoute == "/v1/sys/mounts"

\* the path a mount is stored under
Stored(name) == trim_end_matches(name, "/") \o "/"

\* the mount a request names, "" when it names none
Named(request) ==
    LET path == request.url.path
        n == Len(MountsRoute) + 1
    IN  IF Len(path) > n /\ SubSeq(path, 1, n) = MountsRoute \o "/"
        THEN SubSeq(path, n + 1, Len(path))
        ELSE ""

Refused(message) == JsonBody(JObj([errors |-> JArr(<<JStr(message)>>)]))

Listing(mounted) ==
    JsonBody(Envelope(JObj([m \in mounted |->
        JObj([type |-> JStr(IF m = "sys/" THEN "system" ELSE "kv"),
              description |-> JStr("")])])))

\* the reply of the service holding the mounts mounted to a request
ServiceAnswer(mounted, request) ==
    IF TokenHeader \notin DOMAIN request.headers
          \/ request.headers[TokenHeader] # ServiceToken
    THEN Reply(403, Refused("permission denied"))
    ELSE IF request.method = "GET" /\ request.url.path = MountsRoute
    THEN Reply(200, Listing(mounted))
    ELSE IF request.method = "POST" /\ Named(request) # ""
    THEN IF Stored(Named(request)) \in mounted
         THEN Reply(400, Refused("path is already in use"))
         ELSE Reply(204, EmptyBody)
    ELSE IF request.method = "DELETE" /\ Named(request) # ""
    THEN Reply(204, EmptyBody)
    ELSE Reply(404, Refused("unsupported path"))

\* the mounts of the service after the request
ServiceAfter(mounted, request) ==
    IF ServiceAnswer(mounted, request).status # 204 THEN mounted
    ELSE IF request.method = "POST" THEN mounted \cup {Stored(Named(request))}
    ELSE mounted \ {Stored(Named(request))}

\* two paths that differ in trailing separators only
SameMount(p, q) == Stored(p) = Stored(q)

\* what is known of every path p after the call op on path q: the last
\* successful call on p, and whether a successful call on another path of the
\* same mount came later (a call that fails leaves the service as it was)
Noted(history, op, q, ok) ==
    IF ~ok THEN history
    ELSE [p \in DOMAIN history |->
            IF p = q THEN [call |-> op, other |-> FALSE]
            ELSE IF SameMount(p, q) THEN [history[p] EXCEPT !.other = TRUE]
            ELSE history[p]]

InitService ==
    /\ resp = ResponseEmpty
    /\ proj = NoProjection
    /\ clients = [h \in Handles |->
                    IF h = 1
                    THEN Live(from_environment(
                             [VAULT_ADDR |-> None, VAULT_TOKEN |-> None,
                              VAULT_CACERT |-> None],
                             Some(ServiceAddress), Some(ServiceToken), None,
                             [cert |-> "ok", tls |-> TRUE]).val)
                    ELSE NoClient]
    /\ last = NoOp
    /\ calls = NoCalls
    /\ mounts = [mounted |-> {"sys/"},
                 history |-> [p \in MountPaths |-> [call |-> "none", other |-> FALSE]]]

\* the call whose request is sent reaches the service, which answers and keeps
\* its mounts, or is lost on the way
Served(op, args, sent, serve(_)) ==
    \E reached \in BOOLEAN :
        LET net == IF reached THEN ServiceAnswer(mounts.mounted, sent[1])
                   ELSE ConnectError
        IN  \E call \in serve(net) :
                /\ last' = [op |-> op, h |-> 1, self |-> clients[1].self,
                            args |-> args, phase |-> "done", sent |-> call.sent,
                            net |-> net, res |-> call.res]
                /\ mounts' =
                      [mounted |-> IF reached
                                   THEN ServiceAfter(mounts.mounted, sent[1])
                                   ELSE mounts.mounted,
                       history |-> IF op = "Mounts::list" THEN mounts.history
                                   ELSE Noted(mounts.history, op, args.path,
                                              call.res.ok)]
                /\ UNCHANGED <<resp, proj, clients, calls>>

enable_served_step ==
    \E path \in MountPaths :
        LET engine == [path |-> path, type |-> "kv", description |-> None,
                       config |-> None]
            serve(net) == {Mounts_enable(clients[1].self, engine, net)}
        IN  Served("Mounts::enable", [path |-> path],
                   Mounts_enable(clients[1].self, engine, ConnectError).sent, serve)

disable_served_step ==
    \E path \in MountPaths :
        LET serve(net) == {Mounts_disable(clients[1].self, path, net)}
        IN  Served("Mounts::disable", [path |-> path],
                   Mounts_disable(clients[1].self, path, ConnectError).sent, serve)

list_served_step ==
    LET serve(net) == Mounts_list(clients[1].self, net)
    IN  Served("Mounts::list", <<>>,
               (CHOOSE call \in Mounts_list(clients[1].self, ConnectError) : TRUE).sent,
               serve)

NextService ==
    \/ enable_served_step
    \/ disable_served_step
    \/ list_served_step

SpecService == InitService /\ [][NextService]_vars

Listed == last.op = "Mounts::list" /\ last.res.ok

\* the key Mounts::list gives the path p
Key(p) == CHOOSE t \in {SubSeq(p, 1, n) : n \in 0..Len(p)} : IsTrimmed(t, p)

----------------------------------------------------------------------------
(* The aws engine against a service that keeps the lease of every aws mount *)
(* as durations and reports them as it formats durations: hours, minutes    *)
(* and seconds, from the largest unit that is not zero.                     *)

AwsMounts == {"aws", "aws-2"}

Digits == "0123456789"

UnitSeconds == [h |-> 3600, m |-> 60, s |-> 1]

RECURSIVE Scan(_, _, _, _, _, _)
\* the seconds of a duration string read from position i on, -1 when it is
\* none: numbers with a unit each, or one number of seconds
Scan(text, i, number, pending, total, units) ==
    IF i > Len(text)
    THEN IF pending THEN (IF units = 0 THEN number ELSE -1)
         ELSE (IF units = 0 THEN -1 ELSE total)
    ELSE LET c == SubSeq(text, i, i)
         IN  IF IndexOf(Digits, c) > 0
             THEN Scan(text, i + 1, number * 10 + IndexOf(Digits, c) - 1, TRUE,
                       total, units)
             ELSE IF c \in DOMAIN UnitSeconds /\ pending
             THEN Scan(text, i + 1, 0, FALSE, total + number * UnitSeconds[c],
                       units + 1)
             ELSE -1

ParseDuration(text) == Scan(text, 1, 0, FALSE, 0, 0)

FormatDuration(seconds) ==
    LET h == seconds \div 3600
        m == (seconds % 3600) \div 60
        sec == seconds % 60
    IN  IF h > 0 THEN ToString(h) \o "h" \o ToString(m) \o "m" \o ToString(sec) \o "s"
        ELSE IF m > 0 THEN ToString(m) \o "m" \o ToString(sec) \o "s"
        ELSE ToString(sec) \o "s"

\* the string the service reports for a duration it was given as text
Normalized(text) == FormatDuration(ParseDuration(text))

LeaseRoute(mount) == "/v1/" \o mount \o "/config/lease"

\* the lease the body of a request gives, None when it gives none
LeaseOf(request) ==
    IF /\ request.body.some
       /\ request.body.val.t = "obj"
       /\ {"lease", "lease_max"} \subseteq DOMAIN request.body.val.o
       /\ request.body.val.o["lease"].t = "str"
       /\ request.body.val.o["lease_max"].t = "str"
       /\ ParseDuration(request.body.val.o["lease"].s) > 0
       /\ ParseDuration(request.body.val.o["lease_max"].s) > 0
    THEN Some([lease |-> ParseDuration(request.body.val.o["lease"].s),
               lease_max |-> ParseDuration(request.body.val.o["lease_max"].s)])
    ELSE None

\* the reply of the service keeping the leases kept to a request
AwsAnswer(kept, request) ==
    IF TokenHeader \notin DOMAIN request.headers
          \/ request.headers[TokenHeader] # ServiceToken
    THEN Reply(403, Refused("permission denied"))
    ELSE IF \A mount \in AwsMounts : request.url.path # LeaseRoute(mount)
    THEN Reply(404, Refused("unsupported path"))
    ELSE LET mount == CHOOSE a \in AwsMounts : request.url.path = LeaseRoute(a)
         IN  IF request.method = "GET"
             THEN IF kept[mount].some
                  THEN Reply(200, JsonBody(Envelope(JObj(
                           [lease |-> JStr(FormatDuration(kept[mount].val.lease)),
                            lease_max |-> JStr(FormatDuration(kept[mount].val.lease_max))]))))
                  ELSE Reply(404, JsonBody(JObj([errors |-> JArr(<<>>)])))
             ELSE IF request.method = "POST"
             THEN IF LeaseOf(request).some
                  THEN Reply(204, EmptyBody)
                  ELSE Reply(400, Refused("Invalid lease"))
             ELSE Reply(405, Refused("unsupported operation"))

\* the leases of the service after the request
AwsAfter(kept, request) ==
    IF AwsAnswer(kept, request).status = 204
    THEN [kept EXCEPT ![CHOOSE a \in AwsMounts : request.url.path = LeaseRoute(a)]
                          = LeaseOf(request)]
    ELSE kept

AwsLeases ==
    [lease : {"1h", "90m", "1h0m0s"}, lease_max : {"24h", "45"}]
    \cup {[lease |-> "soon", lease_max |-> "24h"]}

\* mounts.kept holds the leases of the service, mounts.configured the lease
\* of the last configure_lease of every mount that succeeded
InitAws ==
    /\ resp = ResponseEmpty
    /\ proj = NoProjection
    /\ clients = [h \in Handles |->
                    IF h = 1
                    THEN Live(from_environment(
                             [VAULT_ADDR |-> None, VAULT_TOKEN |-> None,
                              VAULT_CACERT |-> None],
                             Some(ServiceAddress), Some(ServiceToken), None,
                             [cert |-> "ok", tls |-> TRUE]).val)
                    ELSE NoClient]
    /\ last = NoOp
    /\ calls = NoCalls
    /\ mounts = [kept |-> [a \in AwsMounts |-> None],
                 configured |-> [a \in AwsMounts |-> None]]

\* the request of the call reaches the service, which answers and keeps its
\* leases, or is lost on the way
configure_lease_served_step ==
    \E path \in AwsMounts, lease \in AwsLeases, reached \in BOOLEAN :
        LET self == clients[1].self
            sent == Aws_configure_lease(self, path, lease, ConnectError).sent
            net == IF reached THEN AwsAnswer(mounts.kept, sent[1]) ELSE ConnectError
            call == Aws_configure_lease(self, path, lease, net)
        IN  /\ last' = [op |-> "Aws::configure_lease", h |-> 1, self |-> self,
                        args |-> [path |-> path, lease |-> lease],
                        phase |-> "done", sent |-> call.sent, net |-> net,
                        res |-> call.res]
            /\ mounts' =
                  [kept |-> IF reached THEN AwsAfter(mounts.kept, sent[1])
                            ELSE mounts.kept,
                   configured |-> IF call.res.ok
                                  THEN [mounts.configured EXCEPT ![path] = Some(lease)]
                                  ELSE mounts.configured]
            /\ UNCHANGED <<resp, proj, clients, calls>>

read_lease_served_step ==
    \E path \in AwsMounts, reached \in BOOLEAN :
        LET self == clients[1].self
            sent == Aws_read_lease(self, path, ConnectError).sent
            net == IF reached THEN AwsAnswer(mounts.kept, sent[1]) ELSE ConnectError
            call == Aws_read_lease(self, path, net)
        IN  /\ last' = [op |-> "Aws::read_lease", h |-> 1, self |-> self,
                        args |-> [path |-> path],
                        phase |-> "done", sent |-> call.sent, net |-> net,
                        res |-> call.res]
            /\ UNCHANGED <<resp, proj, clients, mounts, calls>>

NextAws ==
    \/ configure_lease_served_step
    \/ read_lease_served_step

SpecAws == InitAws /\ [][NextAws]_vars

\* the lease strings of a reply body that carries a lease
RepliedLease(net) ==
    [lease |-> net.body.j.o["data"].o["lease"].s,
     lease_max |-> net.body.j.o["data"].o["lease_max"].s]

\* C11: configure_lease sends one POST to {mount}/config/lease whose body holds
\* the caller's lease and lease_max strings as given; a read_lease that
\* succeeds returns the two strings of the reply as they are; so a read_lease
\* of a mount whose last successful configure_lease gave (l, m) returns the
\* strings the service formats the durations l and m as.
C11_LeaseStringsPassThrough ==
    /\ last.op = "Aws::configure_lease" =>
          /\ Len(last.sent) = 1
          /\ last.sent[1].method = "POST"
          /\ last.sent[1].url.path = "/v1/" \o last.args.path \o "/config/lease"
          /\ last.sent[1].body =
                Some(JObj([lease |-> JStr(last.args.lease.lease),
                           lease_max |-> JStr(last.args.lease.lease_max)]))
    /\ (last.op = "Aws::read_lease" /\ last.res.ok) =>
          /\ last.res.val = RepliedLease(last.net)
          /\ mounts.configured[last.args.path].some =>
                last.res.val =
                   [lease |-> Normalized(mounts.configured[last.args.path].val.lease),
                    lease_max |->
                       Normalized(mounts.configured[last.args.path].val.lease_max)]

\* "1h"/"24h" was configured and is read back as "1h0m0s"/"24h0m0s"
C11_Witness ==
    /\ last.op = "Aws::read_lease"
    /\ last.res.ok
    /\ mounts.configured[last.args.path] = Some([lease |-> "1h", lease_max |-> "24h"])
    /\ last.res.val = [lease |-> "1h0m0s", lease_max |-> "24h0m0s"]

----------------------------------------------------------------------------
(* Secret, the wrapper of the token of a Client and of the client_token of  *)
(* an Authentication.  The model holds both as their text; Secret(text) is  *)
(* the wrapper around it.  A caller renders, reads and compares the two.    *)

Secret(text) == [text |-> text]

\* impl From<String> for Secret
Secret_from(s) == Secret(s)

\* impl Deref for Secret
Secret_deref(self) == self.text

\* what #[derive(Debug)] would write
Secret_fmt_debug_derived(self) == "Secret(\"" \o self.text \o "\")"

\* impl Debug for Secret
Secret_fmt_debug(self) == "***"

\* impl fmt::Display for Secret
Secret_fmt_display(self) == "***"

\* impl AsRef<str> for Secret
Secret_as_ref(self) == self.text

\* #[derive(PartialEq)]
Secret_eq(self, other) == self.text = other.text

SecretTexts == {"12345", "s.envtoken", "", "***", "Secret"}

AuthenticationOf(client_token) ==
    [client_token |-> client_token, accessor |-> "acc-1",
     policies |-> <<"default">>, token_policies |-> <<"default">>,
     metadata |-> EmptyMap, lease_duration |-> 3600, renewable |-> TRUE,
     entity_id |-> "", token_type |-> "service"]

\* the secrets a caller holds: the token of its client, the issued token of
\* the response it holds
Held ==
    [token |-> Secret_from(clients[1].self.token),
     client_token |-> Secret_from(resp.data.auth.val.client_token)]

InitSecret ==
    /\ \E text \in SecretTexts :
          resp = ResponseResponse(
                    [request_id |-> "req-1", lease_id |-> "", renewable |-> FALSE,
                     lease_duration |-> 0, warnings |-> None,
                     auth |-> Some(AuthenticationOf(text)), data |-> None])
    /\ proj = NoProjection
    /\ \E text \in SecretTexts :
          clients = [h \in Handles |->
                       IF h = 1
                       THEN Live(internal_new(ServiceAddress, text, FALSE, None,
                                              [cert |-> "ok", tls |-> TRUE]).val)
                       ELSE NoClient]
    /\ last = NoOp
    /\ calls = NoCalls
    /\ mounts = NoMounts

fmt_debug_step ==
    \E of \in DOMAIN Held :
        /\ proj' = [op |-> "fmt::Debug", of |-> of, res |-> Secret_fmt_debug(Held[of])]
        /\ UNCHANGED <<resp, clients, last, mounts, calls>>

fmt_display_step ==
    \E of \in DOMAIN Held :
        /\ proj' = [op |-> "fmt::Display", of |-> of,
                    res |-> Secret_fmt_display(Held[of])]
        /\ UNCHANGED <<resp, clients, last, mounts, calls>>

deref_step ==
    \E of \in DOMAIN Held :
        /\ proj' = [op |-> "deref", of |-> of, res |-> Secret_deref(Held[of])]
        /\ UNCHANGED <<resp, clients, last, mounts, calls>>

as_ref_step ==
    \E of \in DOMAIN Held :
        /\ proj' = [op |-> "as_ref", of |-> of, res |-> Secret_as_ref(Held[of])]
        /\ UNCHANGED <<resp, clients, last, mounts, calls>>

eq_step ==
    /\ proj' = [op |-> "eq", of |-> "token",
                res |-> Secret_eq(Held.token, Held.client_token)]
    /\ UNCHANGED <<resp, clients, last, mounts, calls>>

NextSecret ==
    \/ fmt_debug_step
    \/ fmt_display_step
    \/ deref_step
    \/ as_ref_step
    \/ eq_step

SpecSecret == InitSecret /\ [][NextSecret]_vars

\* the text the secret `of` was made from
TextOf(of) ==
    IF of = "token" THEN clients[1].self.token
    ELSE resp.data.auth.val.client_token

\* C12: the Debug and the Display rendering of every Secret is "***", whatever
\* its text; deref and as_ref give the text it wraps, and two secrets are
\* equal exactly when their texts are.
C12_SecretRendersAsMarker ==
    /\ proj.op \in {"fmt::Debug", "fmt::Display"} => proj.res = "***"
    /\ proj.op \in {"deref", "as_ref"} => proj.res = TextOf(proj.of)
    /\ proj.op = "eq" => (proj.res <=> (TextOf("token") = TextOf("client_token")))

\* two secrets of different texts, neither of them the marker, one rendered
C12_Witness ==
    /\ proj.op = "fmt::Debug"
    /\ proj.res = "***"
    /\ TextOf("token") # TextOf("client_token")
    /\ TextOf(proj.of) \notin {"***", ""}

----------------------------------------------------------------------------
(* Claims about revoke_self and the address of a client, checked under Spec *)

Revoked == last.op = "revoke_self" /\ last.phase = "done"

\* revoke_self sends at most one request, a POST that carries the token of
\* the client
C13_OneAuthenticatedPost ==
    (Revoked /\ last.sent # <<>>) =>
        /\ Len(last.sent) = 1
        /\ last.sent[1].method = "POST"
        /\ TokenHeader \in DOMAIN last.sent[1].headers
        /\ last.sent[1].headers[TokenHeader] = last.self.token
        /\ last.sent[1].url.path = "/v1/auth/token/revoke-self"
        /\ last.sent[1].body = None

\* revoke_self succeeds exactly on an empty reply body, whatever the status,
\* and fails with UnexpectedResponse on any other body
C13_EmptyBodyOnly ==
    (Revoked /\ last.net.kind = "reply") =>
        /\ last.res.ok <=> is_empty(last.net.body)
        /\ is_empty(last.net.body) => last.res = Ok(None)
        /\ ~is_empty(last.net.body) => last.res = Err(UnexpectedResponse(last.net.body))

\* the request of revoke_self goes to the whole base address followed by
\* /v1/auth/token/revoke-self
C13_ToBaseAddress ==
    (Revoked /\ last.sent # <<>>) =>
        Url_as_str(last.sent[1].url) =
            trim_end_matches(last.self.address, "/") \o "/v1/auth/token/revoke-self"

\* C13: revoke_self issues one authenticated POST to
\* {base}/v1/auth/token/revoke-self, succeeds exactly when the reply body is
\* empty (a 204 reply and an empty 200 reply alike), and fails with
\* UnexpectedResponse for any non-empty body.
C13_RevokeSelfAsStated ==
    /\ C13_OneAuthenticatedPost
    /\ C13_EmptyBodyOnly
    /\ C13_ToBaseAddress

\* revoke_self of a client whose base address has a path, answered with an
\* empty body: the request went to the root of the host
C13_Witness ==
    /\ Revoked
    /\ last.self.address = "https://vault.example.com/vault"
    /\ last.net = Reply(204, EmptyBody)
    /\ last.res = Ok(None)
    /\ Url_as_str(last.sent[1].url) =
          "https://vault.example.com/v1/auth/token/revoke-self"

CoreOps ==
    {"read", "read_with_query", "write", "get", "get_with_query", "list", "post",
     "put", "delete", "revoke_self"}

\* an address that is no scheme://host URL
Malformed(address) == IndexOf(address, "://") = 0

\* C14: construction does not look at the text of the address: it succeeds
\* with an address exactly when it succeeds with a well-formed one in its
\* place, and never fails with UrlParseError; every request core call and
\* revoke_self on a client whose address is malformed fails with UrlParseError
\* and sends no request, on every call.
C14_MalformedAddressFailsAtCallTime ==
    /\ (Constructed /\ ~NoAddress) =>
          /\ last.res.ok <=>
                from_environment(last.env, Some(ServiceAddress), last.args.token,
                                 last.args.root_ca, last.sys).ok
          /\ ~last.res.ok => last.res.err # UrlParseError
    /\ (last.op \in CoreOps /\ Malformed(last.self.address)) =>
          /\ last.phase = "done"
          /\ last.sent = <<>>
          /\ last.net = NoNet
          /\ last.res = Err(UrlParseError)

\* a client was built with an address without a scheme, and a write on it
\* failed before any request
C14_Witness ==
    /\ last.op = "write"
    /\ clients[1].state = "live"
    /\ clients[1].self.address = "127.0.0.1:8200"
    /\ last.sent = <<>>
    /\ last.res = Err(UrlParseError)

----------------------------------------------------------------------------
(* Claims about leased_data, checked under SpecResponse *)

\* leased_data<T>() agrees with data<T>() on the response under projection
LeasedAgreesWithData ==
    proj.op = "leased_data" =>
        LET plain == Response_data(resp, proj.T)
        IN  /\ proj.res.ok <=> plain.ok
            /\ ~plain.ok => proj.res.err.kind = plain.err.kind
            /\ plain.ok =>
                  /\ resp.variant = "Response"
                  /\ proj.res.val.data = plain.val
                  /\ proj.res.val.lease_id = resp.data.lease_id
                  /\ proj.res.val.renewable = resp.data.renewable
                  /\ proj.res.val.lease_duration = resp.data.lease_duration

\* C15: leased_data<T>() succeeds exactly when data<T>() does and fails with
\* the same kind of error otherwise; on success it holds the value of
\* data<T>() and the lease_id, renewable and lease_duration of the response;
\* the projection leaves the response as it was.
C15_LeasedDataIsDataWithLease ==
    /\ [](LeasedAgreesWithData)
    /\ [][proj'.op = "leased_data" => resp' = resp]_vars

C15_Witness ==
    /\ proj.op = "leased_data"
    /\ proj.T = "Credentials"
    /\ proj.res.ok
    /\ proj.res.val.lease_id = "aws/creds/deploy/abcd"
    /\ proj.res.val.lease_duration = 3600
    /\ proj.res.val.renewable

----------------------------------------------------------------------------
(* Claims about the requests of a call, checked under Spec *)

EngineOps ==
    {"Mounts::list", "Mounts::enable", "Mounts::disable", "Mounts::get",
     "Mounts::tune", "Aws::configure_root", "Aws::rotate_root",
     "Aws::configure_lease", "Aws::read_lease", "Aws::generate_credentials",
     "Transit::create_key", "Transit::read_key", "Transit::list_keys",
     "Transit::delete_key", "Transit::configure_key"}

\* C16: every request core call and every engine operation sends at most one
\* request; when the request fails in transport the call fails with
\* ReqwestError, and when its reply body is no JSON the call fails with
\* JsonError or UnexpectedResponse, with that one request sent and no other.
C16_NoRetry ==
    last.op \in CoreOps \cup EngineOps =>
        /\ Len(last.sent) <= 1
        /\ last.phase = "sent" => Len(last.sent) = 1
        /\ (last.phase = "done" /\ last.net.kind \in {"connect_error", "body_error"}) =>
              /\ Len(last.sent) = 1
              /\ last.res = Err(ReqwestError)
        /\ (Answered /\ last.net.body.kind = "text") =>
              /\ Len(last.sent) = 1
              /\ last.res \in {Err(JsonError), Err(UnexpectedResponse(last.net.body))}

\* an engine call whose one request found no connection
C16_Witness ==
    /\ last.op = "Transit::list_keys"
    /\ last.phase = "done"
    /\ last.net = ConnectError
    /\ Len(last.sent) = 1
    /\ last.res = Err(ReqwestError)

----------------------------------------------------------------------------
(* Several calls in flight on one client.  The calls take &self, so tasks   *)
(* that share the client start calls while others await their replies, and  *)
(* the network answers the requests in any order.  A slot holds one call:   *)
(* idle, sent (awaiting the reply) or done (its result not yet taken).      *)

\* the most calls in flight at the same time
MaxCalls == 2

CallIds == 1..MaxCalls

NoCall == [phase |-> "idle"]

ConcurrentOps == {"get", "post", "revoke_self"}

ArgsOf(op) ==
    CASE op = "get" -> [path |-> "secret/data/app"]
      [] op = "post" -> [path |-> "secret/data/app",
                         payload |-> JObj([value |-> JStr("v")]),
                         response_expected |-> FALSE]
      [] op = "revoke_self" -> <<>>

ConcurrentOutcomes ==
    {ConnectError, Reply(204, EmptyBody),
     Reply(200, JsonBody(Envelope(P_config))),
     Reply(403, JsonBody(JObj([errors |-> JArr(<<JStr("permission denied")>>)])))}

\* the call op(args) on self when the network answers net
Attempt(op, self, args, net) ==
    CASE op = "get" -> get(self, args.path, net)
      [] op = "post" -> post(self, args.path, args.payload, args.response_expected, net)
      [] op = "revoke_self" -> revoke_self(self, net)

\* the call of slot c ended with the result of the oldest call in flight: the
\* replies matched to the calls in the order of the slots
Resolved_oldest_first(cs, c, self, net) ==
    LET first == CHOOSE d \in CallIds :
                     /\ cs[d].phase = "sent"
                     /\ \A e \in CallIds : cs[e].phase = "sent" => d <= e
    IN  [cs[c] EXCEPT !.phase = "done", !.net = net,
                      !.res = Attempt(cs[first].op, self, cs[first].args, net).res]

\* the call of slot c after the reply net to its request
Resolved(cs, c, self, net) ==
    [cs[c] EXCEPT !.phase = "done", !.net = net,
                  !.res = Attempt(cs[c].op, self, cs[c].args, net).res]

InitConcurrent ==
    /\ resp = ResponseEmpty
    /\ proj = NoProjection
    /\ \E token \in {ServiceToken, EnvToken} :
          clients = [h \in Handles |->
                       IF h = 1
                       THEN Live(internal_new(ServiceAddress, token, FALSE, None,
                                              [cert |-> "ok", tls |-> TRUE]).val)
                       ELSE NoClient]
    /\ last = NoOp
    /\ mounts = NoMounts
    /\ calls = [c \in CallIds |-> NoCall]

\* a task starts a call in a free slot; behind holds the calls in flight then
start_call(c) ==
    \E op \in ConcurrentOps :
        LET self == clients[1].self
            dry == Attempt(op, self, ArgsOf(op), ConnectError)
        IN  /\ calls[c].phase = "idle"
            /\ calls' = [calls EXCEPT ![c] =
                           [op |-> op, args |-> ArgsOf(op), self |-> self,
                            phase |-> IF dry.sent = <<>> THEN "done" ELSE "sent",
                            sent |-> dry.sent, net |-> NoNet,
                            res |-> IF dry.sent = <<>> THEN dry.res ELSE Pending,
                            behind |-> {d \in CallIds : calls[d].phase = "sent"}]]
            /\ UNCHANGED <<resp, proj, clients, last, mounts>>

\* the network answers the request of the call in slot c
resolve_call(c) ==
    \E net \in ConcurrentOutcomes :
        /\ calls[c].phase = "sent"
        /\ calls' = [calls EXCEPT ![c] = Resolved(calls, c, clients[1].self, net)]
        /\ UNCHANGED <<resp, proj, clients, last, mounts>>

\* the task takes the result of its call: the slot is free again
return_call(c) ==
    /\ calls[c].phase = "done"
    /\ calls' = [d \in CallIds |->
                   IF d = c THEN NoCall
                   ELSE IF calls[d].phase = "idle" THEN calls[d]
                   ELSE [calls[d] EXCEPT !.behind = @ \ {c}]]
    /\ UNCHANGED <<resp, proj, clients, last, mounts>>

start_call_step == \E c \in CallIds : start_call(c)

resolve_call_step == \E c \in CallIds : resolve_call(c)

return_call_step == \E c \in CallIds : return_call(c)

NextConcurrent ==
    \/ start_call_step
    \/ resolve_call_step
    \/ return_call_step

SpecConcurrent == InitConcurrent /\ [][NextConcurrent]_vars

\* every call in a slot was started on the client as it is now, carries its
\* token in its request, and has as result what the call alone gives on its
\* own reply
CallsAreIndependent ==
    \A c \in CallIds :
        calls[c].phase # "idle" =>
            /\ calls[c].self = clients[1].self
            /\ \A i \in 1..Len(calls[c].sent) :
                  /\ TokenHeader \in DOMAIN calls[c].sent[i].headers
                  /\ calls[c].sent[i].headers[TokenHeader] = clients[1].self.token
            /\ calls[c].phase = "done" =>
                  calls[c].res =
                     Attempt(calls[c].op, calls[c].self, calls[c].args, calls[c].net).res

\* the reply to one call leaves the other calls as they are
OthersUntouched ==
    \A c \in CallIds :
        (calls[c].phase = "sent" /\ calls'[c].phase = "done") =>
            \A d \in CallIds \ {c} : calls'[d] = calls[d]

----------------------------------------------------------------------------
(* Claims about the bodies of requests and replies, checked under Spec *)

\* C18: no call that decodes its reply (read, read_with_query, a write with
\* response_expected = true, and the verbs made of them) returns
\* Response::Empty, whatever the reply body; among the request core calls only
\* a write with response_expected = false returns it.
C18_EmptyOnlySynthesized ==
    /\ Decoded => last.res # Ok(ResponseEmpty)
    /\ (last.op \in CoreOps /\ last.phase = "done" /\ last.res = Ok(ResponseEmpty)) =>
          /\ last.op \in WriteOps
          /\ ~last.args.response_expected

\* a write with response_expected = true, answered with the body null, returns
\* Response::Empty
C18_Witness ==
    /\ last.op = "write"
    /\ last.args.response_expected
    /\ last.phase = "done"
    /\ last.net = Reply(200, JsonBody(JNull))
    /\ last.res = Ok(ResponseEmpty)

\* the request of a create_key or an enable that sent one
KeyCreated == last.op = "Transit::create_key" /\ last.sent # <<>>

MountEnabled == last.op = "Mounts::enable" /\ last.sent # <<>>

\* create_key and enable build the target path from the identifying field of
\* the serialized struct
C19_PathFromField ==
    /\ KeyCreated =>
          last.sent[1].url.path =
             "/v1/" \o last.args.path \o "/keys/" \o last.args.key.name
    /\ MountEnabled =>
          last.sent[1].url.path = "/v1/sys/mounts/" \o last.args.engine.path

\* C19: create_key and enable build the target path from the identifying
\* field of the serialized struct and treat the body alike: the field is taken
\* out of the value, which leaves the entry in the body with null in place of
\* the string; every other entry is the serialized field.
C19_BothBodiesKeepNullEntry ==
    /\ C19_PathFromField
    /\ KeyCreated =>
          /\ DOMAIN last.sent[1].body.val.o = DOMAIN SerCreateKey(last.args.key).o
          /\ \A k \in DOMAIN last.sent[1].body.val.o :
                last.sent[1].body.val.o[k] =
                   IF k = "name" THEN JNull ELSE SerCreateKey(last.args.key).o[k]
    /\ MountEnabled =>
          /\ DOMAIN last.sent[1].body.val.o = DOMAIN SerSecretEngine(last.args.engine).o
          /\ \A k \in DOMAIN last.sent[1].body.val.o :
                last.sent[1].body.val.o[k] =
                   IF k = "path" THEN JNull ELSE SerSecretEngine(last.args.engine).o[k]

\* C19 as stated: the body of create_key has no name entry, and the body of
\* enable still holds the path
C19_AsStated ==
    /\ C19_PathFromField
    /\ KeyCreated => "name" \notin DOMAIN last.sent[1].body.val.o
    /\ MountEnabled =>
          /\ "path" \in DOMAIN last.sent[1].body.val.o
          /\ last.sent[1].body.val.o["path"] = JStr(last.args.engine.path)

C19_Witness ==
    /\ KeyCreated
    /\ last.args.key.name = "test"
    /\ last.sent[1].url.path = "/v1/transit/keys/test"
    /\ last.sent[1].body.val.o["name"] = JNull
    /\ last.sent[1].body.val.o["type"] = JStr("rsa-4096")

\* list_keys was answered with a Data-shaped body whose payload is an object
KeysListed ==
    /\ last.op = "Transit::list_keys"
    /\ Answered
    /\ ~ErrorShape(last.net.body)
    /\ DataShape(last.net.body)
    /\ last.net.body.j.t = "obj"
    /\ "data" \in DOMAIN last.net.body.j.o
    /\ last.net.body.j.o["data"].t = "obj"

\* C20: list_keys returns the strings of the "keys" array of the payload, in
\* its order, when the payload has a "keys" entry that is an array of strings
\* only; when the entry is absent, is no array, or holds an element that is no
\* string, it fails with MalformedResponse and returns no list.
C20_ListKeysOrMalformed ==
    KeysListed =>
        LET payload == last.net.body.j.o["data"].o
        IN  IF /\ "keys" \in DOMAIN payload
               /\ payload["keys"].t = "arr"
               /\ \A i \in 1..Len(payload["keys"].a) : payload["keys"].a[i].t = "str"
            THEN /\ last.res.ok
                 /\ Len(last.res.val) = Len(payload["keys"].a)
                 /\ \A i \in 1..Len(last.res.val) :
                       last.res.val[i] = payload["keys"].a[i].s
            ELSE last.res = Err(MalformedResponse)

\* a "keys" array with a string and a number: no list of the one string
C20_Witness ==
    /\ KeysListed
    /\ last.net.body = JsonBody(Envelope(P_keys_mixed))
    /\ last.res = Err(MalformedResponse)

----------------------------------------------------------------------------
(* Claims about the role operations of the AWS engine, checked under Spec *)

RoleOps ==
    {"Aws::create_role", "Aws::read_role", "Aws::list_roles", "Aws::delete_role"}

\* C21: create_role, read_role, list_roles and delete_role end at once by a
\* panic: the call gives no Result, neither Ok nor Err, and sends no request;
\* update_role ends as create_role with the same arguments does, by the panic.
C21_RoleOpsAbort ==
    /\ last.op \in RoleOps \cup {"Aws::update_role"} =>
          /\ last.phase = "done"
          /\ last.sent = <<>>
          /\ "ok" \notin DOMAIN last.res
          /\ last.res = Unimplemented
    /\ last.op = "Aws::update_role" =>
          last.res = Aws_create_role(last.self, last.args.path, last.args.role,
                                     ConnectError).res

\* update_role was called on a live client and unwound
C21_Witness ==
    /\ last.op = "Aws::update_role"
    /\ last.phase = "done"
    /\ last.args.role = RoleDefault
    /\ last.sent = <<>>
    /\ last.res = Unimplemented

----------------------------------------------------------------------------
(* Claims about the errors of the engines, checked under Spec *)

\* the request core verb an engine operation calls, and the path it passes
CoreVerb(op, args) ==
    CASE op = "Mounts::list" -> [verb |-> "get", path |-> "sys/mounts"]
      [] op = "Mounts::enable" ->
            [verb |-> "post", path |-> "sys/mounts/" \o args.engine.path]
      [] op = "Mounts::disable" ->
            [verb |-> "delete", path |-> "sys/mounts/" \o args.path]
      [] op = "Mounts::get" ->
            [verb |-> "get", path |-> "sys/mounts/" \o args.path \o "/tune"]
      [] op = "Mounts::tune" ->
            [verb |-> "post", path |-> "sys/mounts/" \o args.path \o "/tune"]
      [] op = "Aws::configure_root" ->
            [verb |-> "post", path |-> args.path \o "/config/root"]
      [] op = "Aws::rotate_root" ->
            [verb |-> "read", path |-> args.path \o "/config/rotate-root"]
      [] op = "Aws::configure_lease" ->
            [verb |-> "post", path |-> args.path \o "/config/lease"]
      [] op = "Aws::read_lease" ->
            [verb |-> "get", path |-> args.path \o "/config/lease"]
      [] op = "Aws::generate_credentials" ->
            [verb |-> "get_with_query",
             path |-> args.path \o "/creds/" \o args.role]
      [] op = "Transit::create_key" ->
            [verb |-> "post", path |-> args.path \o "/keys/" \o args.key.name]
      [] op = "Transit::read_key" ->
            [verb |-> "get", path |-> args.path \o "/keys/" \o args.key]
      [] op = "Transit::list_keys" ->
            [verb |-> "list", path |-> args.path \o "/keys"]
      [] op = "Transit::delete_key" ->
            [verb |-> "delete", path |-> args.path \o "/keys/" \o args.key]
      [] op = "Transit::configure_key" ->
            [verb |-> "post",
             path |-> args.path \o "/keys/" \o args.key \o "/config"]

\* the result of that verb on its own, for the payload or query the engine
\* operation sent and the answer of the network
CoreResult(op, self, args, sent, net) ==
    LET core == CoreVerb(op, args)
        payload == IF sent # <<>> /\ sent[1].body.some THEN sent[1].body.val
                   ELSE JNull
        query == IF sent # <<>> /\ sent[1].query.some THEN JObj(sent[1].query.val)
                 ELSE JObj(EmptyMap)
        answer == IF sent = <<>> THEN ConnectError ELSE net
    IN  CASE core.verb = "get" -> get(self, core.path, answer).res
          [] core.verb = "list" -> list(self, core.path, answer).res
          [] core.verb = "read" -> read(self, core.path, "POST", answer).res
          [] core.verb = "get_with_query" ->
                get_with_query(self, core.path, query, answer).res
          [] core.verb = "post" -> post(self, core.path, payload, FALSE, answer).res
          [] core.verb = "delete" -> delete(self, core.path, FALSE, answer).res

\* C22: when the request core verb an engine operation calls fails with an
\* error, the engine operation fails with that same error: never a success, a
\* default value or an error of another kind.
C22_EngineErrorsPassThrough ==
    (last.op \in EngineOps /\ last.phase = "done") =>
        LET core == CoreResult(last.op, last.self, last.args, last.sent, last.net)
        IN  ~core.ok => last.res = core

\* the get of Mounts::list failed to decode a reply that is no JSON, and list
\* failed with that JsonError
C22_Witness ==
    /\ last.op = "Mounts::list"
    /\ last.phase = "done"
    /\ last.net.kind = "reply"
    /\ last.net.body.kind = "text"
    /\ get(last.self, "sys/mounts", last.net).res = Err(JsonError)
    /\ last.res = Err(JsonError)

----------------------------------------------------------------------------
(* Claims about the URL of a request, checked under Spec *)

GenericOps == {"read", "read_with_query", "write"}

Dispatched == last.op \in GenericOps /\ last.sent # <<>>

\* read, read_with_query and write send their request with the verb the caller
\* passed
C23_VerbAsPassed ==
    Dispatched => last.sent[1].method = last.args.method

\* their request goes to the host of the base address, at /v1/ followed by the
\* path of the caller
C23_ToHostRoot ==
    Dispatched =>
        /\ last.sent[1].url.path = "/v1/" \o last.args.path
        /\ last.sent[1].url.host = Url_parse(last.self.address).val.host
        /\ last.sent[1].url.scheme = Url_parse(last.self.address).val.scheme

\* their request goes to the whole base address followed by /v1/ and the path
C23_ToBaseAddress ==
    Dispatched =>
        Url_as_str(last.sent[1].url) =
            trim_end_matches(last.self.address, "/") \o "/v1/" \o last.args.path

\* C23: for every valid base address and every path, read, read_with_query and
\* write send their request to {base}/v1/{path}, the whole base address
\* followed by /v1/ and the path, with the verb the caller passed.
C23_GenericDispatchAsStated ==
    /\ C23_VerbAsPassed
    /\ C23_ToBaseAddress

\* a read with the verb LIST on a client whose base address has a path: the
\* request went to the root of the host
C23_Witness ==
    /\ last.op = "read"
    /\ last.args.method = "LIST"
    /\ last.self.address = "https://vault.example.com/vault"
    /\ last.sent # <<>>
    /\ last.sent[1].method = "LIST"
    /\ Url_as_str(last.sent[1].url) = "https://vault.example.com/v1/secret/data/app"

----------------------------------------------------------------------------
(* Clones of a client.  Client derives Clone, so a clone is a Client value  *)
(* of its own with the fields of the original, the token and the flag       *)
(* included, and it is disposed of on its own.  One caller builds a client, *)
(* clones it, uses the values and drops them, in any order.                 *)

\* the most Client values that hold one token, the original included
MaxClones == 2

CloneHandles == 1..MaxClones

\* #[derive(Clone)]: every field is cloned
Client_clone(self) == Client(self.address, self.token, self.revoke_self_on_drop)

InitClones ==
    /\ resp = ResponseEmpty
    /\ proj = NoProjection
    /\ clients = [h \in CloneHandles |-> NoClient]
    /\ last = NoOp
    /\ calls = NoCalls
    /\ mounts = NoMounts

\* client.clone(), held as the value g
clone_step ==
    \E h \in CloneHandles, g \in CloneHandles :
        /\ Idle
        /\ IsLive(h)
        /\ clients[g] = NoClient
        /\ clients' = [clients EXCEPT ![g] = Live(Client_clone(clients[h].self))]
        /\ last' = [op |-> "clone", h |-> h, self |-> clients[h].self,
                    args |-> [into |-> g], phase |-> "done", sent |-> <<>>,
                    net |-> NoNet, res |-> Ok(None)]
        /\ UNCHANGED <<resp, proj, mounts, calls>>

clone_get_step ==
    \E h \in CloneHandles, path \in WritePaths :
        Issue("get", h, [path |-> path], get(clients[h].self, path, ConnectError))

clone_drop_step == \E h \in CloneHandles : Client_drop(h)

clone_drop_returns_step ==
    \E h \in CloneHandles, net \in Outcomes : Client_drop_returns(h, net)

NextClones ==
    \/ new_step
    \/ clone_step
    \/ clone_get_step
    \/ reply_step
    \/ clone_drop_step
    \/ clone_drop_returns_step

SpecClones == InitClones /\ [][NextClones]_vars

\* the values that hold the token of the client built with the flag set
Disposed(h) == clients[h].state \in {"dropping", "dropped"}

\* the clients whose disposal sent a self-revocation request
Revoking ==
    {h \in CloneHandles :
        /\ Disposed(h)
        /\ clients[h].revoke_calls > 0
        /\ revoke_self(clients[h].self, ConnectError).sent # <<>>}

\* across a client and its clones, at most one self-revocation request is
\* issued for the token they share
C24_OneRevocation == Cardinality(Revoking) <= 1

\* no value sends a request with the token after the self-revocation of
\* another value that holds it has succeeded
C24_NoUseAfterRevocation ==
    \A h \in CloneHandles :
        (Disposed(h) /\ clients[h].revoke = "ok") =>
            ~(/\ last.op \in {"get", "drop"}
              /\ last.h # h
              /\ last.sent # <<>>
              /\ last.sent[1].headers[TokenHeader] = clients[h].self.token)

\* C24: across a client built with revoke-on-drop and its clones, in any order
\* of use and disposal, at most one self-revocation request is issued for the
\* shared token, and no clone sends a request with the token after a
\* self-revocation of it has succeeded.
C24_ClonesRevokeOnce ==
    /\ C24_OneRevocation
    /\ C24_NoUseAfterRevocation

\* what the code does: every value built from a client with the flag set has
\* the flag set, and its disposal calls revoke_self once, whatever became of
\* the others
C24_EveryCloneRevokes ==
    \A h \in CloneHandles, g \in CloneHandles :
        (clients[h].state # "none" /\ clients[g].state # "none") =>
            /\ clients[g].self = clients[h].self
            /\ (Disposed(g) /\ clients[g].self.revoke_self_on_drop) =>
                  clients[g].revoke_calls = 1

\* the clone was dropped and its self-revocation succeeded; the original then
\* sent a get with the revoked token, was dropped and sent a second
\* self-revocation
C24_Witness ==
    /\ clients[2].state = "dropped" /\ clients[2].revoke = "ok"
    /\ clients[1].state = "dropped" /\ clients[1].revoke = "failed"
    /\ clients[1].self.token = clients[2].self.token
    /\ clients[1].revoke_calls = 1 /\ clients[2].revoke_calls = 1
    /\ last.op = "drop" /\ last.h = 1
    /\ Len(last.sent) = 1
    /\ last.net.kind = "reply" /\ last.net.status = 403

----------------------------------------------------------------------------
(* Claims about the status of a reply, checked under Spec *)

\* the status codes a reply is answered again with
Statuses == {200, 204, 403, 500}

\* the call of the last step, had its reply come with another status
Replayed(status) ==
    Run(last.op, last.self, last.args, Reply(status, last.net.body))

\* C25: the result of every request core call and of revoke_self depends on
\* the body of the reply and not on its status: the same body under any
\* status gives the same result; a write with response_expected = false and
\* revoke_self fail on a reply exactly when its body is not empty, and a call
\* that decodes the body gives the Error variant only for a body of the Error
\* shape.
C25_StatusIgnored ==
    (Answered /\ last.op \in CoreOps) =>
        /\ \A status \in Statuses : \A call \in Replayed(status) :
              /\ call.res = last.res
              /\ call.sent = last.sent
        /\ (\/ last.op = "revoke_self"
            \/ last.op \in WriteOps /\ ~last.args.response_expected) =>
              (~last.res.ok <=> ~is_empty(last.net.body))
        /\ (Decoded /\ last.res.ok /\ last.res.val.variant = "Error") =>
              ErrorShape(last.net.body)

\* a write with response_expected = false answered with status 500 and an
\* empty body returned Response::Empty
C25_Witness ==
    /\ Answered
    /\ last.op = "write"
    /\ ~last.args.response_expected
    /\ last.net = Reply(500, EmptyBody)
    /\ last.res = Ok(ResponseEmpty)

----------------------------------------------------------------------------
(* Claims about the revoke-on-drop flag, checked under Spec *)

\* the step that has just been taken is a construction
Constructing == last.op \in {"new", "from_environment"}

\* a client is returned with the flag its constructor gives it, and a failed
\* construction leaves no client and has sent no request
BuiltAsAsked ==
    Constructing =>
        /\ last.sent = <<>>
        /\ last.res.ok =>
              /\ clients[1] = Live(last.res.val)
              /\ last.op = "from_environment" =>
                    ~last.res.val.revoke_self_on_drop
              /\ last.op = "new" =>
                    last.res.val.revoke_self_on_drop = last.args.revoke_self_on_drop
        /\ ~last.res.ok => \A h \in Handles : clients[h] = NoClient

\* no step changes the flag of a client that exists, or takes the client away
FlagKept ==
    \A h \in Handles :
        clients[h].state # "none" =>
            /\ clients'[h].state # "none"
            /\ clients'[h].self.revoke_self_on_drop =
                  clients[h].self.revoke_self_on_drop

\* no disposal has called revoke_self
NoRevocationOnDrop ==
    /\ \A h \in Handles :
          clients[h].state # "none" =>
              clients[h].revoke_calls = 0 /\ clients[h].revoke = "none"
    /\ last.op = "drop" => last.sent = <<>>

\* C26: the revoke-on-drop flag of a client is fixed by its construction and
\* never changes: from_environment returns a client with the flag unset, whose
\* disposal never issues a self-revocation; Client::new returns a client
\* whose flag is its revoke_self_on_drop argument; a construction that fails
\* leaves no client and issues no request.
C26_FlagFixedAtConstruction ==
    /\ [](BuiltAsAsked)
    /\ [][FlagKept]_vars
    /\ []((last.op = "from_environment" /\ last.res.ok) => [](NoRevocationOnDrop))

\* Client::new with the address, the token and revoke_self_on_drop = true
\* failed at the certificate file: no client, no request
C26_Witness ==
    /\ last.op = "new"
    /\ last.args.revoke_self_on_drop
    /\ last.args.address.some /\ last.args.token.some
    /\ last.res = Err(IoError)
    /\ last.sent = <<>>
    /\ clients[1] = NoClient

====
